---- MODULE Spec2Model ----
(***************************************************************************)
(* A model of the gumgum PDF engine: the COS document reader (xref         *)
(* resolution, object lookup, page tree walk), the document API built on   *)
(* it, the graphics interpreter (state stack, CTM, paths, callbacks), the   *)
(* content stream parser, the canvas, the stream filters and predictors,   *)
(* the lexer's strings and names, the TrueType glyph renderer, the size of *)
(* a rendered page, and the viewer's threads and page index.               *)
(*                                                                         *)
(* Bytes are abstracted to the items a parse finds at an offset; every     *)
(* decision the code takes on those items is kept.  A Go panic (index or   *)
(* slice bound out of range) and an unbounded recursion (the runtime's     *)
(* fatal stack overflow) are outcomes of their own: "panic", "overflow".   *)
(***************************************************************************)
EXTENDS Integers, Sequences, FiniteSets, TLC

(***************************************************************************)
(* Bounds of the model.                                                    *)
(***************************************************************************)
NumSections == 2   \* xref sections in a Prev chain
XrefObjs == 2      \* object numbers an xref section may mention
MaxObjNum == 2     \* objects of a document of the object family
MaxKids == 2       \* length of a Kids array
MaxOps == 6        \* operators executed by the interpreter
MaxChunks == 3     \* pieces of a content stream
MaxCanvasChunks == 5   \* pieces of a content stream that is rendered
PageSize == 3      \* width and height of the page that is rendered
MaxRawBytes == 3   \* bytes of a raw payload handed to a filter
MaxPlainBytes == 5 \* bytes of a string whose standard encoding is decoded
MaxPlaneBytes == 4 \* bytes of an image plane handed to the predictor
MaxLzwShort == 4   \* bytes of a short LZW input
MaxLzwBytes == 5410    \* bytes of the long LZW input: the table fills up
MaxContourPoints == 3  \* points of a glyph contour
MaxComponents == 2     \* components of a compound glyph
NumGlyphs == 3         \* glyphs of a font with compound glyphs
MaxPieces == 2         \* pieces of a literal string or a name
MaxHexChars == 3       \* characters of a hex string
MaxPages == 2          \* pages of a document the viewer loads
MaxDocs == 2           \* documents the viewer opens

(***************************************************************************)
(* COS objects (src/unnamed/part_002).  Nil is Go's nil interface.         *)
(***************************************************************************)
Nil == [k |-> "nil"]

Null == [k |-> "null"]

Integer(v) == [k |-> "int", v |-> v]

Name(s) == [k |-> "name", s |-> s]

Reference(n, g) == [k |-> "ref", num |-> n, gen |-> g]

Array(items) == [k |-> "array", items |-> items]

\* d is a function from key strings to objects
Dict(d) == [k |-> "dict", d |-> d]

\* Data is the payload; ents and objs stand for what the payload decodes to
\* when it is read as an xref stream or as an object stream.
Stream(d, data, ents, objs) ==
    [k |-> "stream", d |-> d, Data |-> data, ents |-> ents, objs |-> objs]

EmptyFn == [x \in {} |-> Nil]

Get(d, key) == IF key \in DOMAIN d THEN d[key] ELSE Nil

GetName(d, key) ==
    IF key \in DOMAIN d /\ d[key].k = "name"
    THEN [ok |-> TRUE, s |-> d[key].s]
    ELSE [ok |-> FALSE, s |-> ""]

GetInt(d, key) ==
    IF key \in DOMAIN d /\ d[key].k = "int"
    THEN [ok |-> TRUE, v |-> d[key].v]
    ELSE [ok |-> FALSE, v |-> 0]

GetArray(d, key) ==
    IF key \in DOMAIN d /\ d[key].k = "array"
    THEN [ok |-> TRUE, items |-> d[key].items]
    ELSE [ok |-> FALSE, items |-> << >>]

GetRef(d, key) ==
    IF key \in DOMAIN d /\ d[key].k = "ref"
    THEN [ok |-> TRUE, num |-> d[key].num]
    ELSE [ok |-> FALSE, num |-> 0]

(***************************************************************************)
(* The input buffer.  len is its length, sx the integer after the last     *)
(* `startxref` (NoStartXref when the keyword or its digits are missing),   *)
(* at[o] the item a parse finds at offset o.                               *)
(***************************************************************************)
NoStartXref == -1

Junk == [t |-> "junk"]

XrefItem(entries, trailer) == [t |-> "xref", entries |-> entries, trailer |-> trailer]

ObjItem(num, gen, body) == [t |-> "obj", num |-> num, gen |-> gen, body |-> body]

\* a dictionary followed by `stream`, EOL and the bytes tail
RawStream(d, tail, ents, objs) ==
    [k |-> "rawstream", d |-> d, tail |-> tail, ents |-> ents, objs |-> objs]

ItemAt(data, offset) ==
    IF offset \in DOMAIN data.at THEN data.at[offset] ELSE Junk

XrefEntry(offset, gen, inUse, stmNum, idx) ==
    [Offset |-> offset, Generation |-> gen, InUse |-> inUse,
     ObjectStreamNum |-> stmNum, IndexInStream |-> idx]

Min(a, b) == IF a < b THEN a ELSE b

\* v := value, evaluated once, and then Then(v)
Once(value, Then(_)) == CHOOSE out \in { Then(v) : v \in {value} } : TRUE

(***************************************************************************)
(* Object parser                                                           *)
(***************************************************************************)
\* parseDictOrStream: the payload is Length bytes, clamped to the buffer
parseDictOrStream(raw) ==
    IF raw.k # "rawstream" THEN [err |-> FALSE, obj |-> raw]
    ELSE LET length == GetInt(raw.d, "Length")
         IN IF ~length.ok THEN [err |-> TRUE, obj |-> Nil]
            ELSE [err |-> FALSE,
                  obj |-> Stream(raw.d,
                                 SubSeq(raw.tail, 1, Min(length.v, Len(raw.tail))),
                                 raw.ents, raw.objs)]

\* ParseObjectAt / ParseIndirectObject on the item at offset
ParseObjectAt(data, offset) ==
    IF offset < 0 \/ offset >= data.len THEN [err |-> TRUE, obj |-> Nil]
    ELSE LET it == ItemAt(data, offset)
         IN IF it.t # "obj" THEN [err |-> TRUE, obj |-> Nil]
            ELSE parseDictOrStream(it.body)

(***************************************************************************)
(* Xref resolver                                                           *)
(***************************************************************************)
findStartXref(data) ==
    IF data.sx = NoStartXref THEN [err |-> TRUE, offset |-> 0]
    ELSE [err |-> FALSE, offset |-> data.sx]

NoTable == [Entries |-> EmptyFn, Trailer |-> EmptyFn]

\* st is "ok", "err" or "panic" (data[pos] with a negative pos)
parseXrefTable(data, offset) ==
    IF offset < 0 THEN [st |-> "panic", table |-> NoTable]
    ELSE LET it == ItemAt(data, offset)
         IN IF it.t # "xref" THEN [st |-> "err", table |-> NoTable]
            ELSE [st |-> "ok",
                  table |-> [Entries |-> it.entries, Trailer |-> it.trailer]]

decodeXrefStream(stream) ==
    LET w == GetArray(stream.d, "W")
    IN IF ~w.ok \/ Len(w.items) < 3 THEN [st |-> "err", table |-> NoTable]
       ELSE [st |-> "ok",
             table |-> [Entries |-> stream.ents, Trailer |-> stream.d]]

\* data[offset:] panics when offset is outside 0..len(data)
parseXrefStream(data, offset) ==
    IF offset < 0 \/ offset > data.len THEN [st |-> "panic", table |-> NoTable]
    ELSE LET it == ItemAt(data, offset)
             parsed == IF it.t = "obj" THEN parseDictOrStream(it.body)
                       ELSE [err |-> TRUE, obj |-> Nil]
         IN IF parsed.err THEN [st |-> "err", table |-> NoTable]
            ELSE IF parsed.obj.k # "stream" THEN [st |-> "err", table |-> NoTable]
            ELSE decodeXrefStream(parsed.obj)

ParseXref(data, offset) ==
    LET t == parseXrefTable(data, offset)
    IN IF t.st = "err" THEN parseXrefStream(data, offset) ELSE t

\* Merge entries (current takes precedence)
MergeOlderWins(cur, prev) ==
    [n \in DOMAIN cur \cup DOMAIN prev |->
        IF n \in DOMAIN prev THEN prev[n] ELSE cur[n]]

MergeEntries(cur, prev) ==
    [n \in DOMAIN cur \cup DOMAIN prev |->
        IF n \in DOMAIN cur THEN cur[n] ELSE prev[n]]

\* loadPrevXref.  chain lists the offsets parsed so far, newest first in time.
\* The code keeps no visited set: when an offset comes back with the merged
\* entries as they were the last time it was entered, the recursion repeats
\* itself for ever ("overflow").
RECURSIVE loadPrevXref(_, _, _, _, _)
loadPrevXref(data, entries, offset, chain, seen) ==
    Once(ParseXref(data, offset), LAMBDA px :
        IF px.st = "panic"
        THEN [st |-> "panic", Entries |-> entries, chain |-> Append(chain, offset)]
        ELSE IF px.st = "err"
        THEN [st |-> "err", Entries |-> entries, chain |-> chain]
        ELSE Once(MergeEntries(entries, px.table.Entries), LAMBDA merged :
                 LET prevPrev == GetInt(px.table.Trailer, "Prev")
                     chain2 == Append(chain, offset)
                 IN IF ~prevPrev.ok
                    THEN [st |-> "ok", Entries |-> merged, chain |-> chain2]
                    ELSE IF <<prevPrev.v, merged>> \in seen
                    THEN [st |-> "overflow", Entries |-> merged,
                          chain |-> Append(chain2, prevPrev.v)]
                    ELSE loadPrevXref(data, merged, prevPrev.v, chain2,
                                      seen \cup {<<prevPrev.v, merged>>})))

\* NewReader: st is "ok", "err", "panic" or "overflow"
NewReader(data) ==
    LET sx == findStartXref(data)
        none == [st |-> "err", xref |-> NoTable, chain |-> << >>]
    IN IF sx.err THEN none
       ELSE Once(ParseXref(data, sx.offset), LAMBDA px :
                IF px.st # "ok" THEN [none EXCEPT !.st = px.st]
                ELSE LET prev == GetInt(px.table.Trailer, "Prev")
                     IN IF ~prev.ok
                        THEN [st |-> "ok", xref |-> px.table, chain |-> <<sx.offset>>]
                        ELSE Once(loadPrevXref(data, px.table.Entries, prev.v,
                                               <<sx.offset>>,
                                               {<<prev.v, px.table.Entries>>}),
                                  LAMBDA lp :
                                      [st |-> IF lp.st \in {"panic", "overflow"}
                                              THEN lp.st ELSE "ok",
                                       xref |-> [px.table EXCEPT !.Entries = lp.Entries],
                                       chain |-> lp.chain]))

(***************************************************************************)
(* Stream filters (src/pkg/stream/filters.go, src/pkg/cos/xref.go).  A     *)
(* byte string is a sequence of integers 0..255; Go's nil slice and the    *)
(* empty slice are both << >>.  A decoder returns [err, msg, data].        *)
(***************************************************************************)
Decoded(bytes) == [err |-> FALSE, msg |-> "", data |-> bytes]

Failed(msg, bytes) == [err |-> TRUE, msg |-> msg, data |-> bytes]

isWhitespace(b) == b \in {32, 9, 13, 10, 12, 0}

\* the switch of DecodeASCIIHex on '0'..'9', 'A'..'F', 'a'..'f'; -1: skipped
hexNibble(b) ==
    IF b >= 48 /\ b <= 57 THEN b - 48
    ELSE IF b >= 65 /\ b <= 70 THEN b - 65 + 10
    ELSE IF b >= 97 /\ b <= 102 THEN b - 97 + 10
    ELSE -1

RECURSIVE asciiHexFrom(_, _, _, _, _)
asciiHexFrom(bytes, i, result, hexByte, haveNibble) ==
    IF i > Len(bytes) \/ bytes[i] = 62
    THEN IF haveNibble THEN Append(result, (hexByte * 16) % 256) ELSE result
    ELSE IF isWhitespace(bytes[i]) \/ hexNibble(bytes[i]) < 0
    THEN asciiHexFrom(bytes, i + 1, result, hexByte, haveNibble)
    ELSE IF haveNibble
    THEN asciiHexFrom(bytes, i + 1,
                      Append(result, ((hexByte * 16) % 256) + hexNibble(bytes[i])),
                      hexByte, FALSE)
    ELSE asciiHexFrom(bytes, i + 1, result, hexNibble(bytes[i]), TRUE)

\* the variant that forgets the pending nibble when the second one arrives
asciiHexDropsHighNibble(bytes) ==
    Decoded([j \in 1..Len(asciiHexFrom(bytes, 1, << >>, 0, FALSE)) |->
                asciiHexFrom(bytes, 1, << >>, 0, FALSE)[j] % 16])

DecodeASCIIHex(bytes) == Decoded(asciiHexFrom(bytes, 1, << >>, 0, FALSE))

\* a uint32 as its two 16-bit halves
Tuple(hi, lo) == [hi |-> hi, lo |-> lo]

\* tuple*85 + d in uint32 arithmetic
MulAdd85(t, d) ==
    Tuple((t.hi * 85 + (t.lo * 85 + d) \div 65536) % 65536, (t.lo * 85 + d) % 65536)

\* byte(tuple>>24), byte(tuple>>16), byte(tuple>>8), byte(tuple)
TupleBytes(t) == <<t.hi \div 256, t.hi % 256, t.lo \div 256, t.lo % 256>>

RECURSIVE padTuple(_, _)
padTuple(t, count) == IF count >= 5 THEN t ELSE padTuple(MulAdd85(t, 84), count + 1)

RECURSIVE ascii85From(_, _, _, _, _)
ascii85From(bytes, i, result, t, count) ==
    IF i > Len(bytes) \/ bytes[i] = 126
    THEN IF count > 0
         THEN result \o SubSeq(TupleBytes(padTuple(t, count)), 1, count - 1)
         ELSE result
    ELSE IF isWhitespace(bytes[i])
    THEN ascii85From(bytes, i + 1, result, t, count)
    ELSE IF bytes[i] = 122 /\ count = 0
    THEN ascii85From(bytes, i + 1, result \o <<0, 0, 0, 0>>, t, count)
    ELSE IF bytes[i] < 33 \/ bytes[i] > 117
    THEN ascii85From(bytes, i + 1, result, t, count)
    ELSE IF count + 1 = 5
    THEN ascii85From(bytes, i + 1,
                     result \o TupleBytes(MulAdd85(t, bytes[i] - 33)), Tuple(0, 0), 0)
    ELSE ascii85From(bytes, i + 1, result, MulAdd85(t, bytes[i] - 33), count + 1)

DecodeASCII85(bytes) == Decoded(ascii85From(bytes, 1, << >>, Tuple(0, 0), 0))

Repeat(b, n) == [j \in 1..n |-> b]

\* i is the 1-based index of the length byte
RECURSIVE runLengthFrom(_, _, _)
runLengthFrom(bytes, i, result) ==
    IF i > Len(bytes) \/ bytes[i] = 128 THEN result
    ELSE IF bytes[i] < 128
    THEN runLengthFrom(bytes, i + 1 + Min(bytes[i] + 1, Len(bytes) - i),
                       result \o SubSeq(bytes, i + 1,
                                        i + Min(bytes[i] + 1, Len(bytes) - i)))
    ELSE IF i + 1 > Len(bytes) THEN result
    ELSE runLengthFrom(bytes, i + 2, result \o Repeat(bytes[i + 1], 257 - bytes[i]))

DecodeRunLength(bytes) == Decoded(runLengthFrom(bytes, 1, << >>))

\* zlib.NewReader accepts a two-byte header: deflate, a window of at most
\* 32K, and the pair a multiple of 31
zlibHeader(bytes) ==
    /\ Len(bytes) >= 2
    /\ bytes[1] % 16 = 8
    /\ bytes[1] \div 16 <= 7
    /\ (bytes[1] * 256 + bytes[2]) % 31 = 0

\* no input of this model carries a zlib header, so the inflation itself is
\* never entered
DecodeFlateDecode(bytes) ==
    IF Len(bytes) = 0 THEN Decoded(<< >>)
    ELSE IF ~zlibHeader(bytes) THEN Failed("zlib error", << >>)
    ELSE Failed("zlib read error", << >>)

\* the input of the LZW decoder: the byte string bytes followed by a run of
\* zero bytes, zeros long
Padded(bytes, zeros) == [bytes |-> bytes, zeros |-> zeros]

DataLen(data) == Len(data.bytes) + data.zeros

ByteAt(data, i) == IF i <= Len(data.bytes) THEN data.bytes[i] ELSE 0

\* bit b (0 the first) of the input, most significant bit first
BitAt(bytes, b) == (ByteAt(bytes, b \div 8 + 1) \div (2 ^ (7 - (b % 8)))) % 2

RECURSIVE bitsValue(_, _, _)
bitsValue(bytes, b, n) ==
    IF n = 0 THEN 0 ELSE 2 * bitsValue(bytes, b, n - 1) + BitAt(bytes, b + n - 1)

\* lzwDecoder.reset
lzwReset(d) == [d EXCEPT !.table = [c \in 0..255 |-> <<c>>], !.codeSize = 9,
                         !.nextCode = 258]

newLZWDecoder(bytes, earlyChange) ==
    lzwReset([data |-> bytes, bit |-> 0, earlyChange |-> earlyChange,
              table |-> << >>, codeSize |-> 0, nextCode |-> 0,
              clearCode |-> 256, endCode |-> 257])

\* lzwDecoder.readCode: ok is false when the bytes run out inside the code
readCode(d) ==
    IF d.bit + d.codeSize > 8 * DataLen(d.data) THEN [ok |-> FALSE, code |-> 0]
    ELSE [ok |-> TRUE, code |-> bitsValue(d.data, d.bit, d.codeSize)]

\* the variant of lzwLearn that widens the code as if earlyChange were off
lzwLearnLateChange(d, prevSeq, seq) ==
    IF prevSeq # << >> /\ d.nextCode < 4096
    THEN [d EXCEPT !.table = (d.nextCode :> Append(prevSeq, seq[1])) @@ d.table,
                   !.nextCode = d.nextCode + 1,
                   !.codeSize = IF d.nextCode + 1 >= 2 ^ d.codeSize /\ d.codeSize < 12
                                THEN d.codeSize + 1 ELSE d.codeSize]
    ELSE d

\* the table and the code size after a sequence is emitted
lzwLearn(d, prevSeq, seq) ==
    IF prevSeq # << >> /\ d.nextCode < 4096
    THEN [d EXCEPT !.table = (d.nextCode :> Append(prevSeq, seq[1])) @@ d.table,
                   !.nextCode = d.nextCode + 1,
                   !.codeSize =
                       IF d.nextCode + 1 >=
                             2 ^ d.codeSize - (IF d.earlyChange THEN 1 ELSE 0)
                          /\ d.codeSize < 12
                       THEN d.codeSize + 1 ELSE d.codeSize]
    ELSE d

\* the sequence of a code: << >> stands for the invalid code
lzwSeq(d, prevSeq, code) ==
    IF code < d.nextCode
    THEN IF code \in DOMAIN d.table THEN d.table[code] ELSE << >>
    ELSE IF code = d.nextCode /\ prevSeq # << >> THEN Append(prevSeq, prevSeq[1])
    ELSE << >>

\* the decoder at the head of the loop of decode: L is [d, prevSeq, result,
\* st], st "run" until the loop is left ("done") or an invalid code is met
\* ("err"); << >> is the nil prevSeq
lzwStart(bytes, earlyChange) ==
    [d |-> newLZWDecoder(bytes, earlyChange = 1), prevSeq |-> << >>,
     result |-> << >>, st |-> "run"]

\* one turn of the loop of lzwDecoder.decode.  table[256] and table[257] are
\* nil in the code: reading them never happens, both codes are handled before
\* the table is consulted.
lzwStep(L) ==
    Once(readCode(L.d), LAMBDA rc :
        IF ~rc.ok \/ rc.code = L.d.endCode THEN [L EXCEPT !.st = "done"]
        ELSE IF rc.code = L.d.clearCode
        THEN [L EXCEPT !.d = lzwReset([L.d EXCEPT !.bit = @ + L.d.codeSize]),
                       !.prevSeq = << >>]
        ELSE Once(lzwSeq(L.d, L.prevSeq, rc.code), LAMBDA seq :
                 IF seq = << >> THEN [L EXCEPT !.st = "err"]
                 ELSE [d |-> lzwLearn([L.d EXCEPT !.bit = @ + L.d.codeSize],
                                      L.prevSeq, seq),
                       prevSeq |-> seq,
                       result |-> L.result \o seq,
                       st |-> "run"]))

RECURSIVE lzwDecode(_)
lzwDecode(L) ==
    IF L.st = "run" THEN lzwDecode(lzwStep(L))
    ELSE IF L.st = "done" THEN Decoded(L.result)
    ELSE Failed("invalid LZW code", << >>)

DecodeLZW(bytes, earlyChange) ==
    IF Len(bytes) = 0 THEN Decoded(<< >>)
    ELSE lzwDecode(lzwStart(Padded(bytes, 0), earlyChange))

(***************************************************************************)
(* Predictors (src/pkg/stream/predictor.go).  DecodeParams is the record   *)
(* [Predictor, Colors, BitsPerComponent, Columns, EarlyChange].            *)
(***************************************************************************)
DecodeParams(predictor, colors, bpc, columns, earlyChange) ==
    [Predictor |-> predictor, Colors |-> colors, BitsPerComponent |-> bpc,
     Columns |-> columns, EarlyChange |-> earlyChange]

DefaultDecodeParams == DecodeParams(1, 1, 8, 1, 1)

\* the three `if x == 0` defaults at the head of every predictor function
OrDefault(v, d) == IF v = 0 THEN d ELSE v

bytesPerPixel(params) ==
    (OrDefault(params.Colors, 1) * OrDefault(params.BitsPerComponent, 8) + 7) \div 8

rowSize(params) ==
    (OrDefault(params.Columns, 1) * OrDefault(params.Colors, 1)
        * OrDefault(params.BitsPerComponent, 8) + 7) \div 8

abs(x) == IF x < 0 THEN -x ELSE x

paeth(a, b, c) ==
    IF abs(a + b - c - a) <= abs(a + b - c - b) /\ abs(a + b - c - a) <= abs(a + b - c - c)
    THEN a
    ELSE IF abs(a + b - c - b) <= abs(a + b - c - c) THEN b
    ELSE c

\* result[rowStart+col] += result[rowStart+col-colors], left to right; k is
\* the 1-based index in the whole buffer
RECURSIVE tiffFrom(_, _, _, _)
tiffFrom(result, k, colors, bytesPerRow) ==
    IF k > (Len(result) \div bytesPerRow) * bytesPerRow THEN result
    ELSE IF (k - 1) % bytesPerRow >= colors
    THEN tiffFrom([result EXCEPT ![k] = (result[k] + result[k - colors]) % 256],
                  k + 1, colors, bytesPerRow)
    ELSE tiffFrom(result, k + 1, colors, bytesPerRow)

applyTIFFPredictor(bytes, params) ==
    IF OrDefault(params.BitsPerComponent, 8) # 8 THEN Decoded(bytes)
    ELSE IF Len(bytes) = 0
            \/ OrDefault(params.Columns, 1) * OrDefault(params.Colors, 1) = 0
    THEN Decoded(bytes)
    ELSE Decoded(tiffFrom(bytes, 1, OrDefault(params.Colors, 1),
                          OrDefault(params.Columns, 1) * OrDefault(params.Colors, 1)))

\* the byte added to row[i] (1-based) by filter type ft; decoded holds the
\* bytes of the row already decoded
pngPredicted(decoded, prevRow, ft, bpp, i) ==
    CASE ft = 1 -> IF i - 1 >= bpp THEN decoded[i - bpp] ELSE 0
      [] ft = 2 -> IF i <= Len(prevRow) THEN prevRow[i] ELSE 0
      [] ft = 3 -> ((IF i - 1 >= bpp THEN decoded[i - bpp] ELSE 0)
                    + (IF i <= Len(prevRow) THEN prevRow[i] ELSE 0)) \div 2
      [] ft = 4 -> paeth(IF i - 1 >= bpp THEN decoded[i - bpp] ELSE 0,
                         IF i <= Len(prevRow) THEN prevRow[i] ELSE 0,
                         IF i - 1 >= bpp /\ i - bpp <= Len(prevRow)
                         THEN prevRow[i - bpp] ELSE 0)
      [] OTHER -> 0

RECURSIVE pngFilterFrom(_, _, _, _, _)
pngFilterFrom(decoded, prevRow, ft, bpp, i) ==
    IF i > Len(decoded) THEN decoded
    ELSE pngFilterFrom(
            [decoded EXCEPT ![i] = (decoded[i] + pngPredicted(decoded, prevRow, ft, bpp, i)) % 256],
            prevRow, ft, bpp, i + 1)

applyPNGFilter(row, prevRow, filterType, bpp) ==
    pngFilterFrom(row, prevRow, filterType, bpp, 1)

\* make([]byte, rowSize) with data[rowDataStart:rowDataEnd] copied in;
\* from is the 0-based rowDataStart
rowData(bytes, from, size) ==
    [j \in 1..size |-> IF from + j <= Len(bytes) THEN bytes[from + j] ELSE 0]

\* a filter byte above 4 is taken for data: the fixed filter is used and the
\* row starts one byte earlier
usesFixedFilter(bytes, start, predictor) ==
    predictor >= 10 /\ predictor <= 14 /\ bytes[start + 1] > 4

RECURSIVE pngRowsFrom(_, _, _, _, _, _)
pngRowsFrom(bytes, params, predictor, row, prevRow, result) ==
    IF row >= Len(bytes) \div (rowSize(params) + 1) THEN result
    ELSE Once(applyPNGFilter(
                 rowData(bytes,
                         IF usesFixedFilter(bytes, row * (rowSize(params) + 1), predictor)
                         THEN row * (rowSize(params) + 1)
                         ELSE row * (rowSize(params) + 1) + 1,
                         rowSize(params)),
                 prevRow,
                 IF usesFixedFilter(bytes, row * (rowSize(params) + 1), predictor)
                 THEN predictor - 10
                 ELSE bytes[row * (rowSize(params) + 1) + 1],
                 bytesPerPixel(params)),
              LAMBDA decoded :
                 pngRowsFrom(bytes, params, predictor, row + 1, decoded,
                             result \o decoded))

applyOptimumPredictor(bytes, params) == Decoded(bytes)

applyPNGPredictor(bytes, params, predictor) ==
    IF Len(bytes) = 0 \/ rowSize(params) + 1 = 0 THEN Decoded(bytes)
    ELSE IF Len(bytes) \div (rowSize(params) + 1) = 0
    THEN applyOptimumPredictor(bytes, params)
    ELSE Decoded(pngRowsFrom(bytes, params, predictor, 0,
                             [j \in 1..rowSize(params) |-> 0], << >>))

ApplyPredictor(bytes, params) ==
    IF params.Predictor = 1 THEN Decoded(bytes)
    ELSE IF params.Predictor = 2 THEN applyTIFFPredictor(bytes, params)
    ELSE IF params.Predictor >= 10 /\ params.Predictor <= 15
    THEN applyPNGPredictor(bytes, params, params.Predictor)
    ELSE Failed("unsupported predictor", << >>)

\* the variant that takes the difference with the byte just before, whatever
\* the pixel size
encodeRowOneByteBack(row, bpp) ==
    <<1>> \o [i \in 1..Len(row) |->
                 IF i - 1 < 1 THEN row[i] ELSE (row[i] - row[i - 1] + 256) % 256]

\* one row of the encoder: the Sub filter byte, then the differences
encodeRow(row, bpp) ==
    <<1>> \o [i \in 1..Len(row) |->
                 IF i - 1 < bpp THEN row[i] ELSE (row[i] - row[i - bpp] + 256) % 256]

RECURSIVE encodeRowsFrom(_, _, _, _)
encodeRowsFrom(bytes, params, row, result) ==
    IF row >= Len(bytes) \div rowSize(params) THEN result
    ELSE encodeRowsFrom(bytes, params, row + 1,
            result \o encodeRow(SubSeq(bytes, row * rowSize(params) + 1,
                                       Min((row + 1) * rowSize(params), Len(bytes))),
                                bytesPerPixel(params)))

EncodePNGPredictor(bytes, params) ==
    IF Len(bytes) = 0 \/ rowSize(params) = 0 THEN Decoded(bytes)
    ELSE Decoded(encodeRowsFrom(bytes, params, 0, << >>))

(***************************************************************************)
(* The filter pipeline's Decode (src/pkg/stream/filters.go)                *)
(***************************************************************************)
unfiltered(bytes, filter, params) ==
    CASE filter = "FlateDecode" -> DecodeFlateDecode(bytes)
      [] filter = "ASCIIHexDecode" -> DecodeASCIIHex(bytes)
      [] filter = "ASCII85Decode" -> DecodeASCII85(bytes)
      [] filter = "LZWDecode" -> DecodeLZW(bytes, params.EarlyChange)
      [] filter = "RunLengthDecode" -> DecodeRunLength(bytes)
      [] OTHER -> Failed("unsupported filter", << >>)

Decode(bytes, filter, params) ==
    IF filter \in {"DCTDecode", "JPXDecode"} THEN Decoded(bytes)
    ELSE Once(unfiltered(bytes, filter, params),
              LAMBDA r : IF r.err THEN r
                         ELSE IF params.Predictor > 1 THEN ApplyPredictor(r.data, params)
                         ELSE r)

(***************************************************************************)
(* The document reader's filters (src/pkg/cos/xref.go)                     *)
(***************************************************************************)
\* zlib.NewReader is entered whatever the length; the predictor of
\* DecodeParms is applied to inflated data only
decodeFlateDecode(bytes, dict) ==
    IF ~zlibHeader(bytes) THEN Failed("zlib error", << >>)
    ELSE Failed("zlib read error", << >>)

\* the same loop as DecodeASCIIHex
decodeASCIIHex(bytes) == Decoded(asciiHexFrom(bytes, 1, << >>, 0, FALSE))

\* the same loop as DecodeASCII85; the partial group emits count-1 bytes
decodeASCII85(bytes) == Decoded(ascii85From(bytes, 1, << >>, Tuple(0, 0), 0))

decodeLZW(bytes, dict) == Failed("LZW decoding not fully implemented", << >>)

\* the names of a /Filter entry: a Name, or the Names of an Array
filterNames(filter) ==
    IF filter.k = "name" THEN <<filter.s>>
    ELSE IF filter.k = "array"
    THEN [j \in 1..Len(SelectSeq(filter.items, LAMBDA o : o.k = "name")) |->
             SelectSeq(filter.items, LAMBDA o : o.k = "name")[j].s]
    ELSE << >>

applyFilter(bytes, f, dict) ==
    CASE f = "FlateDecode" -> decodeFlateDecode(bytes, dict)
      [] f = "ASCIIHexDecode" -> decodeASCIIHex(bytes)
      [] f = "ASCII85Decode" -> decodeASCII85(bytes)
      [] f = "LZWDecode" -> decodeLZW(bytes, dict)
      [] OTHER -> Failed("unsupported filter", bytes)

RECURSIVE applyFilters(_, _, _, _)
applyFilters(bytes, filters, j, dict) ==
    IF j > Len(filters) THEN Decoded(bytes)
    ELSE Once(applyFilter(bytes, filters[j], dict),
              LAMBDA r : IF r.err /\ r.msg = "unsupported filter" THEN r
                         ELSE IF r.err THEN Failed("filter failed", << >>)
                         ELSE applyFilters(r.data, filters, j + 1, dict))

(***************************************************************************)
(* Lexer.scanLiteralString (src/pkg/cos/xref.go).  p is the 1-based index  *)
(* of l.pos; the token's Value is the buffer when the loop ends.           *)
(***************************************************************************)
isOctalDigit(b) == b >= 48 /\ b <= 55

\* the digits of an octal escape whose first digit is at p: at most three
octalLen(bytes, p) ==
    IF p + 1 <= Len(bytes) /\ isOctalDigit(bytes[p + 1])
    THEN IF p + 2 <= Len(bytes) /\ isOctalDigit(bytes[p + 2]) THEN 3 ELSE 2
    ELSE 1

RECURSIVE octalValue(_, _, _)
octalValue(bytes, p, n) ==
    IF n = 0 THEN 0 ELSE 8 * octalValue(bytes, p, n - 1) + (bytes[p + n - 1] - 48)

\* strconv.ParseUint(octal, 8, 8) fails on a value that does not fit 8 bits,
\* and then nothing is written
octalBytes(bytes, p) ==
    IF octalValue(bytes, p, octalLen(bytes, p)) <= 255
    THEN <<octalValue(bytes, p, octalLen(bytes, p))>>
    ELSE << >>

\* what the escape whose character is at p writes, and the index after it
scanEscape(bytes, p) ==
    CASE bytes[p] = 110 -> [out |-> <<10>>, next |-> p + 1]
      [] bytes[p] = 114 -> [out |-> <<13>>, next |-> p + 1]
      [] bytes[p] = 116 -> [out |-> <<9>>, next |-> p + 1]
      [] bytes[p] = 98 -> [out |-> <<8>>, next |-> p + 1]
      [] bytes[p] = 102 -> [out |-> <<12>>, next |-> p + 1]
      [] bytes[p] = 40 -> [out |-> <<40>>, next |-> p + 1]
      [] bytes[p] = 41 -> [out |-> <<41>>, next |-> p + 1]
      [] bytes[p] = 92 -> [out |-> <<92>>, next |-> p + 1]
      [] bytes[p] = 13 ->
            [out |-> << >>,
             next |-> IF p + 1 <= Len(bytes) /\ bytes[p + 1] = 10 THEN p + 2 ELSE p + 1]
      [] bytes[p] = 10 -> [out |-> << >>, next |-> p + 1]
      [] OTHER ->
            IF isOctalDigit(bytes[p])
            THEN [out |-> octalBytes(bytes, p), next |-> p + octalLen(bytes, p)]
            ELSE [out |-> <<bytes[p]>>, next |-> p + 1]

RECURSIVE literalFrom(_, _, _, _)
literalFrom(bytes, p, buf, depth) ==
    IF p > Len(bytes) \/ depth <= 0 THEN buf
    ELSE IF bytes[p] = 92 /\ p + 1 <= Len(bytes)
    THEN literalFrom(bytes, scanEscape(bytes, p + 1).next,
                     buf \o scanEscape(bytes, p + 1).out, depth)
    ELSE IF bytes[p] = 40 THEN literalFrom(bytes, p + 1, Append(buf, 40), depth + 1)
    ELSE IF bytes[p] = 41
    THEN literalFrom(bytes, p + 1, IF depth - 1 > 0 THEN Append(buf, 41) ELSE buf,
                     depth - 1)
    ELSE literalFrom(bytes, p + 1, Append(buf, bytes[p]), depth)

\* bytes[1] is the opening parenthesis
scanLiteralString(bytes) ==
    [Type |-> "String", Value |-> literalFrom(bytes, 2, << >>, 1)]

(***************************************************************************)
(* Document reader: object lookup.  R is the reader, [data, xref, cache,   *)
(* objStm]; a call returns its outcome st ("ok", "err", "panic",           *)
(* "overflow"), its object and the two caches as it leaves them.  active   *)
(* is the set of object numbers whose GetObject is on the call stack: the  *)
(* caches of such a number are not yet written, so entering it again       *)
(* repeats the same calls without end.                                     *)
(***************************************************************************)
Ret(st, obj, R) == [st |-> st, obj |-> obj, cache |-> R.cache, objStm |-> R.objStm]

\* the /Filter entry is a direct object in the documents of this model
DecodeStream(s) ==
    IF "Filter" \notin DOMAIN s.d THEN Decoded(s.Data)
    ELSE applyFilters(s.Data, filterNames(s.d["Filter"]), 1, s.d)

\* streamData[:first] panics when first is outside the decoded payload
ParseObjectsFromStream(streamData, s) ==
    LET n == GetInt(s.d, "N")
        first == GetInt(s.d, "First")
    IN IF ~n.ok \/ ~first.ok THEN [st |-> "err", objects |-> EmptyFn]
       ELSE IF first.v < 0 \/ first.v > Len(streamData)
       THEN [st |-> "panic", objects |-> EmptyFn]
       ELSE [st |-> "ok", objects |-> s.objs]

RECURSIVE GetObject(_, _, _)
RECURSIVE getObjectFromStream(_, _, _, _, _)

getObjectAtOffset(R, offset, expectedObjNum, active) ==
    Once(ParseObjectAt(R.data, offset), LAMBDA indirect :
        IF indirect.err THEN Ret("err", Nil, R)
        ELSE IF indirect.obj.k = "stream" /\ Get(indirect.obj.d, "Length").k = "ref"
        THEN Once(GetObject(R, Get(indirect.obj.d, "Length").num, active),
                  LAMBDA lengthObj :
                      IF lengthObj.st \in {"panic", "overflow"} THEN lengthObj
                      ELSE IF lengthObj.st = "ok" /\ lengthObj.obj.k = "int"
                      THEN [lengthObj EXCEPT
                               !.st = "ok",
                               !.obj = [indirect.obj EXCEPT !.d =
                                           [x \in DOMAIN @ |->
                                               IF x = "Length" THEN lengthObj.obj
                                               ELSE @[x]]]]
                      ELSE [lengthObj EXCEPT !.st = "ok", !.obj = indirect.obj])
        ELSE Ret("ok", indirect.obj, R))

getObjectFromStream(R, streamObjNum, index, targetObjNum, active) ==
    IF /\ streamObjNum \in DOMAIN R.objStm
       /\ targetObjNum \in DOMAIN R.objStm[streamObjNum]
    THEN Ret("ok", R.objStm[streamObjNum][targetObjNum], R)
    ELSE Once(GetObject(R, streamObjNum, active), LAMBDA streamObj :
             IF streamObj.st # "ok" THEN streamObj
             ELSE IF streamObj.obj.k # "stream"
             THEN [streamObj EXCEPT !.st = "err", !.obj = Nil]
             ELSE LET decoded == DecodeStream(streamObj.obj)
                      po == ParseObjectsFromStream(decoded.data, streamObj.obj)
                  IN IF decoded.err \/ po.st # "ok"
                     THEN [streamObj EXCEPT !.st = IF decoded.err THEN "err" ELSE po.st,
                                            !.obj = Nil]
                     ELSE [st |-> IF targetObjNum \in DOMAIN po.objects
                                  THEN "ok" ELSE "err",
                           obj |-> IF targetObjNum \in DOMAIN po.objects
                                   THEN po.objects[targetObjNum] ELSE Nil,
                           cache |-> streamObj.cache,
                           objStm |-> [s \in DOMAIN streamObj.objStm \cup {streamObjNum} |->
                                          IF s = streamObjNum THEN po.objects
                                          ELSE streamObj.objStm[s]]])

GetObject(R, objNum, active) ==
    IF objNum \in DOMAIN R.cache THEN Ret("ok", R.cache[objNum], R)
    ELSE IF objNum \notin DOMAIN R.xref.Entries THEN Ret("err", Nil, R)
    ELSE LET entry == R.xref.Entries[objNum]
         IN IF ~entry.InUse THEN Ret("ok", Null, R)
            ELSE IF objNum \in active THEN Ret("overflow", Nil, R)
            ELSE Once(IF entry.ObjectStreamNum > 0
                      THEN getObjectFromStream(R, entry.ObjectStreamNum,
                               entry.IndexInStream, objNum, active \cup {objNum})
                      ELSE getObjectAtOffset(R, entry.Offset, objNum,
                                             active \cup {objNum}),
                      LAMBDA got :
                          IF got.st # "ok" THEN got
                          ELSE [got EXCEPT !.cache = [n \in DOMAIN @ \cup {objNum} |->
                                              IF n = objNum THEN got.obj ELSE @[n]]])

\* a mutation of Resolve that hands a reference back unresolved
ResolveKeepsRef(R, obj) == Ret("ok", obj, R)

Resolve(R, obj) ==
    IF obj.k # "ref" THEN Ret("ok", obj, R)
    ELSE GetObject(R, obj.num, {})

ResolveDict(R, obj) ==
    Once(Resolve(R, obj), LAMBDA resolved :
        IF resolved.st # "ok" THEN resolved
        ELSE IF resolved.obj.k = "dict" THEN resolved
        ELSE [resolved EXCEPT !.st = "err", !.obj = Nil])

ResolveArray(R, obj) ==
    Once(Resolve(R, obj), LAMBDA resolved :
        IF resolved.st # "ok" THEN resolved
        ELSE IF resolved.obj.k = "array" THEN resolved
        ELSE [resolved EXCEPT !.st = "err", !.obj = Nil])

\* the reader with its caches as the call r left them
With(R, r) == [R EXCEPT !.cache = r.cache, !.objStm = r.objStm]

(***************************************************************************)
(* Document reader: page tree                                              *)
(***************************************************************************)
Catalog(R) ==
    LET rootRef == GetRef(R.xref.Trailer, "Root")
    IN IF ~rootRef.ok THEN Ret("err", Nil, R)
       ELSE ResolveDict(R, R.xref.Trailer["Root"])

Pages(R) ==
    Once(Catalog(R), LAMBDA catalog :
        IF catalog.st # "ok" THEN catalog
        ELSE IF "Pages" \notin DOMAIN catalog.obj.d
        THEN [catalog EXCEPT !.st = "err", !.obj = Nil]
        ELSE ResolveDict(With(R, catalog), catalog.obj.d["Pages"]))

\* [st, count, cache, objStm]
PageCount(R) ==
    Once(Pages(R), LAMBDA pages :
        LET count == IF pages.st = "ok" THEN GetInt(pages.obj.d, "Count")
                     ELSE [ok |-> FALSE, v |-> 0]
        IN [st |-> IF pages.st # "ok" THEN pages.st
                   ELSE IF count.ok THEN "ok" ELSE "err",
            count |-> count.v, cache |-> pages.cache, objStm |-> pages.objStm])

\* findPage.  active holds the (node, index) pairs on the call stack, the
\* index cut at targetPage + 1: past the target no leaf can match and every
\* Pages kid is descended into, whatever the index is.
RECURSIVE findPage(_, _, _, _, _)
RECURSIVE findPageKids(_, _, _, _, _, _)

\* a mutation of the Kids loop: a Pages kid that is skipped advances the
\* running index by one, as a leaf does, and not by its Count
findPageKidsCountsNodeAsLeaf(R, kidsArray, j, targetPage, pageIndex, active) ==
    IF j > Len(kidsArray) THEN Ret("err", Nil, R)
    ELSE Once(ResolveDict(R, kidsArray[j]), LAMBDA kidDict :
             IF kidDict.st \in {"panic", "overflow"} THEN kidDict
             ELSE IF kidDict.st = "err"
             THEN findPageKids(With(R, kidDict), kidsArray, j + 1, targetPage,
                               pageIndex, active)
             ELSE IF GetName(kidDict.obj.d, "Type").s = "Page"
             THEN IF pageIndex = targetPage THEN kidDict
                  ELSE findPageKids(With(R, kidDict), kidsArray, j + 1, targetPage,
                                    pageIndex + 1, active)
             ELSE LET count == GetInt(kidDict.obj.d, "Count").v
                  IN IF pageIndex + count > targetPage
                     THEN findPage(With(R, kidDict), kidDict.obj, targetPage,
                                   pageIndex, active)
                     ELSE findPageKids(With(R, kidDict), kidsArray, j + 1, targetPage,
                                       pageIndex + 1, active))

\* the loop over kidsArray, from kid j on
findPageKids(R, kidsArray, j, targetPage, pageIndex, active) ==
    IF j > Len(kidsArray) THEN Ret("err", Nil, R)
    ELSE Once(ResolveDict(R, kidsArray[j]), LAMBDA kidDict :
             IF kidDict.st \in {"panic", "overflow"} THEN kidDict
             ELSE IF kidDict.st = "err"
             THEN findPageKids(With(R, kidDict), kidsArray, j + 1, targetPage,
                               pageIndex, active)
             ELSE IF GetName(kidDict.obj.d, "Type").s = "Page"
             THEN IF pageIndex = targetPage THEN kidDict
                  ELSE findPageKids(With(R, kidDict), kidsArray, j + 1, targetPage,
                                    pageIndex + 1, active)
             ELSE LET count == GetInt(kidDict.obj.d, "Count").v
                  IN IF pageIndex + count > targetPage
                     THEN findPage(With(R, kidDict), kidDict.obj, targetPage,
                                   pageIndex, active)
                     ELSE findPageKids(With(R, kidDict), kidsArray, j + 1, targetPage,
                                       pageIndex + count, active))

findPage(R, node, targetPage, currentPage, active) ==
    LET key == <<node, Min(currentPage, targetPage + 1)>>
    IN IF GetName(node.d, "Type").s = "Page"
       THEN IF currentPage = targetPage THEN Ret("ok", node, R)
            ELSE Ret("err", Nil, R)
       ELSE IF "Kids" \notin DOMAIN node.d THEN Ret("err", Nil, R)
       ELSE IF key \in active THEN Ret("overflow", Nil, R)
       ELSE Once(ResolveArray(R, node.d["Kids"]), LAMBDA kidsArray :
                IF kidsArray.st # "ok" THEN kidsArray
                ELSE findPageKids(With(R, kidsArray), kidsArray.obj.items, 1,
                                  targetPage, currentPage, active \cup {key}))

GetPage(R, pageNum) ==
    Once(Pages(R), LAMBDA pages :
        IF pages.st # "ok" THEN pages
        ELSE findPage(With(R, pages), pages.obj, pageNum, 0, {}))

(***************************************************************************)
(* Document API.  A call returns [st, obj, img, cache, objStm]: obj is the *)
(* page dictionary of the Page returned, img tells that an image was       *)
(* returned.                                                               *)
(***************************************************************************)
\* [st, pageCount, xref, chain, cache, objStm]
OpenBytes(d) ==
    Once(NewReader(d), LAMBDA reader :
        IF reader.st # "ok"
        THEN [st |-> reader.st, pageCount |-> 0, xref |-> reader.xref,
              chain |-> reader.chain, cache |-> EmptyFn, objStm |-> EmptyFn]
        ELSE Once(PageCount([data |-> d, xref |-> reader.xref,
                             cache |-> EmptyFn, objStm |-> EmptyFn]),
                  LAMBDA pc :
                      [st |-> pc.st, pageCount |-> pc.count, xref |-> reader.xref,
                       chain |-> reader.chain, cache |-> pc.cache,
                       objStm |-> pc.objStm]))

ApiRet(r, img) ==
    [st |-> r.st, obj |-> r.obj, img |-> img, cache |-> r.cache, objStm |-> r.objStm]

\* Document.Page
Page(R, count, pageNum) ==
    IF pageNum < 0 \/ pageNum >= count THEN ApiRet(Ret("err", Nil, R), FALSE)
    ELSE ApiRet(GetPage(R, pageNum), FALSE)

\* Renderer.RenderPage: a canvas is made and returned once the page is found
\* (the pages of this model have no /Contents)
RenderPage(R, pageNum) ==
    Once(GetPage(R, pageNum), LAMBDA page : ApiRet(page, page.st = "ok"))

\* Document.RenderWithOptions
RenderWithOptions(R, count, pageNum) == RenderPage(R, pageNum)

(***************************************************************************)
(* Documents with a chain of xref sections                                 *)
(***************************************************************************)
XrefObjNums == 1..XrefObjs

\* what section s says about object n: nothing, free, or in use
SectionEntry(s, n, inUse) == XrefEntry(10 * (s + 1) + n, s, inUse, 0, 0)

SectionEntries(s) ==
    UNION { [ns -> BOOLEAN] : ns \in SUBSET XrefObjNums }

EntriesOf(s, f) == [n \in DOMAIN f |-> SectionEntry(s, n, f[n])]

TrailerWith(prev) ==
    IF prev = NoStartXref THEN EmptyFn ELSE [x \in {"Prev"} |-> Integer(prev)]

WArray == Array(<<Integer(1), Integer(2), Integer(1)>>)

\* section s as a table (`xref` keyword) or as an xref stream object
SectionItem(s, f, prev, asStream) ==
    IF asStream
    THEN ObjItem(90 + s, 0,
                 RawStream([x \in {"Length", "W"} \cup DOMAIN TrailerWith(prev) |->
                               IF x = "Length" THEN Integer(0)
                               ELSE IF x = "W" THEN WArray
                               ELSE Integer(prev)],
                           << >>, EntriesOf(s, f), EmptyFn))
    ELSE XrefItem(EntriesOf(s, f), TrailerWith(prev))

\* a chain of k sections at offsets 0..k-1, section s pointing to s+1 and the
\* last one to lastPrev (none, an earlier offset, the end of the buffer, or
\* outside it)
ChainDoc(k, fs, lastPrev, flip) ==
    [len |-> k, sx |-> 0,
     at |-> [s \in 0..(k - 1) |->
                SectionItem(s, fs[s + 1],
                            IF s = k - 1 THEN lastPrev ELSE s + 1,
                            (s + flip) % 2 = 1)]]

\* a single section, and startxref missing, at the end or past the end
StartDoc(f, sx) == [ChainDoc(1, <<f>>, NoStartXref, 0) EXCEPT !.sx = sx]

InitChainDoc(d) ==
    \E k \in 1..NumSections :
        \E fs \in [1..k -> SectionEntries(0)], lp \in {NoStartXref} \cup (0..(k + 1)),
           flip \in {0, 1} :
            d = ChainDoc(k, fs, lp, flip)

InitStartDoc(d) ==
    \E f \in SectionEntries(0), sx \in {NoStartXref, 1, 2} : d = StartDoc(f, sx)

(***************************************************************************)
(* Documents of the object family: an xref stream at offset 0 and object n *)
(* at offset n.  Each object is free, absent from the xref, an integer, a  *)
(* stream with a direct Length, a stream whose Length is a reference, an   *)
(* object compressed in an object stream, or in use at an offset past the  *)
(* end of the buffer.                                                      *)
(***************************************************************************)
ObjNums == 1..MaxObjNum

Succ(n) == (n % MaxObjNum) + 1

ObjChoices(n) ==
    { [t |-> t, to |-> 0] : t \in {"free", "missing", "int", "stm", "bad"} }
      \cup { [t |-> t, to |-> to] : t \in {"stmref", "comp"}, to \in {n, Succ(n)} }

ObjLen == MaxObjNum + 1

ObjEntry(n, c) ==
    CASE c.t = "free" -> XrefEntry(0, 1, FALSE, 0, 0)
      [] c.t = "comp" -> XrefEntry(0, 0, TRUE, c.to, 0)
      [] c.t = "bad" -> XrefEntry(ObjLen + 5, 0, TRUE, 0, 0)
      [] OTHER -> XrefEntry(n, 0, TRUE, 0, 0)

\* the payload of a stream object: three bytes, then `endstream`
Payload(n) == <<n, n + 10, n + 20>>

ObjBody(n, cs) ==
    LET inside == { m \in ObjNums : cs[m].t = "comp" /\ cs[m].to = n }
        objs == [m \in inside |-> Integer(100 + m)]
        d == [x \in {"Length", "N", "First"} |->
                 IF x = "Length"
                 THEN (IF cs[n].t = "stm" THEN Integer(2) ELSE Reference(cs[n].to, 0))
                 ELSE IF x = "N" THEN Integer(Cardinality(inside))
                 ELSE Integer(0)]
    IN IF cs[n].t = "int" THEN Integer(n)
       ELSE RawStream(d, Payload(n), EmptyFn, objs)

ObjDoc(cs) ==
    LET present == { n \in ObjNums : cs[n].t # "missing" }
        ents == [n \in present \cup {0} |->
                    IF n = 0 THEN XrefEntry(0, 65535, FALSE, 0, 0)
                    ELSE ObjEntry(n, cs[n])]
        sec == ObjItem(90, 0,
                       RawStream([x \in {"Length", "W"} |->
                                     IF x = "Length" THEN Integer(0) ELSE WArray],
                                 << >>, ents, EmptyFn))
    IN [len |-> ObjLen, sx |-> 0,
        at |-> [o \in 0..(ObjLen - 1) |->
                   IF o = 0 THEN sec
                   ELSE IF cs[o].t \in {"int", "stm", "stmref"}
                   THEN ObjItem(o, 0, ObjBody(o, cs))
                   ELSE Junk]]

InitObjDoc(d) ==
    \E cs \in [ObjNums -> UNION { ObjChoices(n) : n \in ObjNums }] :
        /\ \A n \in ObjNums : cs[n] \in ObjChoices(n)
        /\ d = ObjDoc(cs)

(***************************************************************************)
(* Documents of the page family: an xref table at offset 0, the catalog as *)
(* object 1 and a page tree of Pages nodes 2 (the root) and 3.  A Kids     *)
(* array lists leaves (0) and Pages nodes; the leaf at position j of node  *)
(* p is object 10 p + j.  Every Count is the number of leaves beneath the  *)
(* node, the root's shifted by tamper.                                     *)
(***************************************************************************)
\* the object numbers of the Pages nodes, the root first
PageTreeNodes == <<2, 3>>

RootNode == PageTreeNodes[1]

KidSeqs(choices) == UNION { [1..m -> choices] : m \in 0..MaxKids }

LeafId(p, j) == 10 * p + j

\* the buffer ends after the last leaf
PageLen == LeafId(PageTreeNodes[2], MaxKids) + 1

RECURSIVE SumSeq(_)
SumSeq(q) == IF q = << >> THEN 0 ELSE Head(q) + SumSeq(Tail(q))

LeafDict(id) ==
    Dict([x \in {"Type", "StructParents"} |->
             IF x = "Type" THEN Name("Page") ELSE Integer(id)])

PagesDict(p, kids, count) ==
    Dict([x \in {"Type", "Kids", "Count"} |->
             IF x = "Type" THEN Name("Pages")
             ELSE IF x = "Count" THEN Integer(count)
             ELSE Array([j \in 1..Len(kids) |->
                            Reference(IF kids[j] = 0 THEN LeafId(p, j) ELSE kids[j], 0)])])

PageDoc(k2, k3, tamper) ==
    LET n3 == Len(k3)
        n2 == SumSeq([j \in 1..Len(k2) |-> IF k2[j] = 0 THEN 1 ELSE n3])
        kids == [p \in 2..3 |-> IF p = 2 THEN k2 ELSE k3]
        count == [p \in 2..3 |-> IF p = 2 THEN n2 + tamper ELSE n3]
        leaves == { LeafId(q, j) : q \in 2..3, j \in 1..MaxKids }
        ids == {1, 2, 3} \cup leaves
        sec == XrefItem([n \in ids \cup {0} |->
                            IF n = 0 THEN XrefEntry(0, 65535, FALSE, 0, 0)
                            ELSE XrefEntry(n, 0, TRUE, 0, 0)],
                        [x \in {"Root"} |-> Reference(1, 0)])
        body(o) == IF o = 1
                   THEN Dict([x \in {"Type", "Pages"} |->
                                 IF x = "Type" THEN Name("Catalog")
                                 ELSE Reference(RootNode, 0)])
                   ELSE IF o \in 2..3 THEN PagesDict(o, kids[o], count[o])
                   ELSE LeafDict(o)
    IN [len |-> PageLen, sx |-> 0,
        at |-> [o \in 0..(PageLen - 1) |->
                   IF o = 0 THEN sec
                   ELSE IF o \in ids THEN ObjItem(o, 0, body(o))
                   ELSE Junk]]

AllLeaves(q) == \A j \in 1..Len(q) : q[j] = 0

\* node 3 has kids only when the root lists it
InitPageDoc(d) ==
    \E k2 \in KidSeqs({0, 3}), k3 \in KidSeqs({0}), tamper \in {-1, 0, 1} :
        /\ AllLeaves(k2) => k3 = << >>
        /\ d = PageDoc(k2, k3, tamper)

\* Documents of the same layout whose Kids arrays may also list node 2 or
\* node 3 themselves, with any Count from 0 to MaxKids on either node
CyclicPageDoc(k2, k3, c2, c3) ==
    [PageDoc(<< >>, << >>, 0) EXCEPT
        !.at = [o \in DOMAIN @ |->
                   IF o = 2 THEN ObjItem(2, 0, PagesDict(2, k2, c2))
                   ELSE IF o = 3 THEN ObjItem(3, 0, PagesDict(3, k3, c3))
                   ELSE @[o]]]

ListsANode(q) == \E j \in 1..Len(q) : q[j] # 0

InitCyclicPageDoc(d) ==
    \E k2 \in KidSeqs({0, 2, 3}), k3 \in KidSeqs({0, 2, 3}),
       c2 \in 0..MaxKids, c3 \in 0..MaxKids :
        /\ ListsANode(k2)
        /\ d = CyclicPageDoc(k2, k3, c2, c3)

(***************************************************************************)
(* Graphics: matrices, colours, paths (src/pkg/graphics/path.go).  Reals   *)
(* are modelled by integers.                                               *)
(***************************************************************************)
Identity == <<1, 0, 0, 1, 0, 0>>

Translate(tx, ty) == <<1, 0, 0, 1, tx, ty>>

\* result = m * other
Multiply(m, other) ==
    << m[1] * other[1] + m[2] * other[3],
       m[1] * other[2] + m[2] * other[4],
       m[3] * other[1] + m[4] * other[3],
       m[3] * other[2] + m[4] * other[4],
       m[5] * other[1] + m[6] * other[3] + other[5],
       m[5] * other[2] + m[6] * other[4] + other[6] >>

clamp(v, min, max) == IF v < min THEN min ELSE IF v > max THEN max ELSE v

NewGray(gray) == [Space |-> "DeviceGray", Components |-> <<clamp(gray, 0, 1)>>]

NewRGB(r, g, b) ==
    [Space |-> "DeviceRGB",
     Components |-> <<clamp(r, 0, 1), clamp(g, 0, 1), clamp(b, 0, 1)>>]

NewCMYK(c, m, y, k) ==
    [Space |-> "DeviceCMYK",
     Components |-> <<clamp(c, 0, 1), clamp(m, 0, 1), clamp(y, 0, 1), clamp(k, 0, 1)>>]

Black == NewGray(0)

Point(x, y) == <<x, y>>

NewPath == [Segments |-> << >>, current |-> Point(0, 0), start |-> Point(0, 0)]

PathClone(p) ==
    [Segments |-> [i \in 1..Len(p.Segments) |->
                      [Op |-> p.Segments[i].Op,
                       Points |-> [j \in 1..Len(p.Segments[i].Points) |->
                                      p.Segments[i].Points[j]]]],
     current |-> p.current,
     start |-> p.start]

MoveTo(p, x, y) ==
    [Segments |-> Append(p.Segments, [Op |-> "MoveTo", Points |-> <<Point(x, y)>>]),
     current |-> Point(x, y),
     start |-> Point(x, y)]

LineTo(p, x, y) ==
    [p EXCEPT !.Segments = Append(@, [Op |-> "LineTo", Points |-> <<Point(x, y)>>]),
              !.current = Point(x, y)]

CurveTo(p, cp1x, cp1y, cp2x, cp2y, endX, endY) ==
    [p EXCEPT !.Segments = Append(@, [Op |-> "CurveTo",
                                      Points |-> <<Point(cp1x, cp1y), Point(cp2x, cp2y),
                                                   Point(endX, endY)>>]),
              !.current = Point(endX, endY)]

CurveToV(p, cp2x, cp2y, endX, endY) ==
    CurveTo(p, p.current[1], p.current[2], cp2x, cp2y, endX, endY)

CurveToY(p, cp1x, cp1y, endX, endY) == CurveTo(p, cp1x, cp1y, endX, endY, endX, endY)

\* a mutation of Close that leaves the subpath open
CloseLeavesOpen(p) == p

Close(p) ==
    [p EXCEPT !.Segments = Append(@, [Op |-> "Close", Points |-> << >>]),
              !.current = p.start]

Rect(p, x, y, width, height) ==
    Close(LineTo(LineTo(LineTo(MoveTo(p, x, y), x + width, y),
                        x + width, y + height),
                 x, y + height))

\* a mutation of Clear that leaves the segments in place
ClearKeepsSegments(p) == p

Clear(p) == NewPath

IsEmpty(p) == Len(p.Segments) = 0

\* Matrix.Transform, Matrix.TransformPoint
Transform(m, x, y) == <<m[1] * x + m[3] * y + m[5], m[2] * x + m[4] * y + m[6]>>

TransformPoint(m, pt) == Transform(m, pt[1], pt[2])

\* Path.Transform
PathTransform(p, m) ==
    [Segments |-> [i \in 1..Len(p.Segments) |->
                      [Op |-> p.Segments[i].Op,
                       Points |-> [j \in 1..Len(p.Segments[i].Points) |->
                                      TransformPoint(m, p.Segments[i].Points[j])]]],
     current |-> IF Len(p.Segments) > 0 THEN TransformPoint(m, p.current)
                 ELSE Point(0, 0),
     start |-> IF Len(p.Segments) > 0 THEN TransformPoint(m, p.start)
               ELSE Point(0, 0)]

FillRuleNonZero == "NonZero"

FillRuleEvenOdd == "EvenOdd"

(***************************************************************************)
(* Graphics state and its stack (src/pkg/graphics/state.go).  A *State is  *)
(* an address of the heap; the stack is the slice of these addresses.  A   *)
(* state no address of the stack points to is garbage and leaves the heap. *)
(***************************************************************************)
NewState ==
    [CTM |-> Identity,
     ClipPath |-> Nil,
     StrokeColor |-> Black,
     FillColor |-> Black,
     StrokeColorSpace |-> "DeviceGray",
     FillColorSpace |-> "DeviceGray",
     LineWidth |-> 1,
     LineCap |-> 0,
     LineJoin |-> 0,
     MiterLimit |-> 10,
     DashPattern |-> << >>,
     DashPhase |-> 0,
     TextState |-> [CharSpace |-> 0, WordSpace |-> 0, HScale |-> 100, Leading |-> 0,
                    FontName |-> "", FontSize |-> 0, RenderMode |-> 0, Rise |-> 0,
                    TextMatrix |-> Identity, LineMatrix |-> Identity],
     StrokeAlpha |-> 1,
     FillAlpha |-> 1,
     BlendMode |-> "Normal",
     RenderingIntent |-> "RelativeColorimetric",
     Flatness |-> 1,
     Smoothness |-> 0]

\* a copy of the struct, with a dash pattern and a clip path of its own
Clone(s) ==
    [s EXCEPT !.DashPattern = [j \in 1..Len(s.DashPattern) |-> s.DashPattern[j]],
              !.ClipPath = IF s.ClipPath = Nil THEN Nil ELSE PathClone(s.ClipPath)]

\* I is the interpreter: [states, heap, path]
Fresh(heap) == CHOOSE a \in 0..Cardinality(DOMAIN heap) : a \notin DOMAIN heap

Reachable(states, heap) ==
    [a \in { states[j] : j \in 1..Len(states) } |-> heap[a]]

NewStateStack == [states |-> <<0>>, heap |-> [a \in {0} |-> NewState]]

\* Current, as it leaves the stack: an empty stack gets a new state
Current(I) ==
    IF Len(I.states) = 0
    THEN [I EXCEPT !.states = <<Fresh(I.heap)>>,
                   !.heap = [a \in {Fresh(I.heap)} |-> NewState]]
    ELSE I

Top(I) == I.states[Len(I.states)]

\* a mutation of Push that saves the current state itself, not a clone of it
PushSharesState(I) ==
    LET C == Current(I)
    IN [C EXCEPT !.states = Append(@, Top(C))]

Push(I) ==
    LET C == Current(I)
        a == Fresh(C.heap)
    IN [C EXCEPT !.states = Append(@, a),
                 !.heap = [b \in DOMAIN @ \cup {a} |->
                              IF b = a THEN Clone(C.heap[Top(C)]) ELSE @[b]]]

\* a mutation of Pop that has no guard on the depth
PopHasNoGuard(I) ==
    IF Len(I.states) > 0
    THEN LET rest == SubSeq(I.states, 1, Len(I.states) - 1)
         IN [I EXCEPT !.states = rest, !.heap = Reachable(rest, I.heap)]
    ELSE I

Pop(I) ==
    IF Len(I.states) > 1
    THEN LET rest == SubSeq(I.states, 1, Len(I.states) - 1)
         IN [I EXCEPT !.states = rest, !.heap = Reachable(rest, I.heap)]
    ELSE I

Depth(I) == Len(I.states)

(***************************************************************************)
(* Interpreter (src/unnamed/part_003).  An operand is a number, a string   *)
(* or an array.  cb holds the names of the callbacks that are not nil (the *)
(* interpreter of NewInterpreter has none); calls is the list of callback  *)
(* invocations the operator executed last has made.                        *)
(***************************************************************************)
NumOperand(v) == [k |-> "num", v |-> v]

StrOperand(s) == [k |-> "str", s |-> s]

ArrOperand(items) == [k |-> "arr", items |-> items]

Operator(name, operands) == [Name |-> name, Operands |-> operands]

\* the strings of this model are names, which parse to 0
toFloat(v) == IF v.k = "num" THEN v.v ELSE 0

toInt(v) == IF v.k = "num" THEN v.v ELSE 0

toString(v) ==
    IF v.k = "str" THEN v.s ELSE IF v.k = "num" THEN ToString(v.v) ELSE "[]"

NewInterpreter ==
    [states |-> NewStateStack.states, heap |-> NewStateStack.heap, path |-> NewPath,
     cb |-> {}, calls |-> << >>]

\* one invocation of a callback with its arguments (Nil where it has none)
Call(cb, path, state, rule, text) ==
    [cb |-> cb, path |-> path, state |-> state, rule |-> rule, text |-> text]

RECURSIVE textOf(_, _)
\* the strings of the array of TJ, from item j on, concatenated
textOf(arr, j) ==
    IF j > Len(arr) THEN ""
    ELSE (IF arr[j].k = "str" THEN arr[j].s ELSE "") \o textOf(arr, j + 1)

parseColor(space, operands) ==
    LET n(j) == toFloat(operands[j])
    IN IF space = "DeviceGray" /\ Len(operands) >= 1 THEN NewGray(n(1))
       ELSE IF space = "DeviceRGB" /\ Len(operands) >= 3 THEN NewRGB(n(1), n(2), n(3))
       ELSE IF space = "DeviceCMYK" /\ Len(operands) >= 4
       THEN NewCMYK(n(1), n(2), n(3), n(4))
       ELSE Black

\* the matrix of the first six operands
OperandMatrix(operands) == [j \in 1..6 |-> toFloat(operands[j])]

executeOp(I, op) ==
    LET C == [Current(I) EXCEPT !.calls = << >>]
        state == C.heap[Top(C)]
        text == state.TextState
        o == op.Operands
        has(n) == Len(o) >= n
        f(j) == toFloat(o[j])
        Set(s2) == [C EXCEPT !.heap[Top(C)] = s2]
        SetIf(n, s2) == IF has(n) THEN Set(s2) ELSE C
        SetText(t2) == Set([state EXCEPT !.TextState = t2])
        SetTextIf(n, t2) == IF has(n) THEN SetText(t2) ELSE C
        PathIf(n, p2) == IF has(n) THEN [C EXCEPT !.path = p2] ELSE C
        nextLine == Multiply(Translate(0, 0 - text.Leading), text.LineMatrix)
        moved == Multiply(Translate(f(1), f(2)), text.LineMatrix)
        OnFill(p, rule) ==
            IF "OnFill" \in C.cb
            THEN <<Call("OnFill", PathTransform(p, state.CTM), state, rule, Nil)>>
            ELSE << >>
        OnStroke(p) ==
            IF "OnStroke" \in C.cb
            THEN <<Call("OnStroke", PathTransform(p, state.CTM), state, Nil, Nil)>>
            ELSE << >>
        OnClip(rule) ==
            IF "OnClip" \in C.cb THEN <<Call("OnClip", C.path, Nil, rule, Nil)>>
            ELSE << >>
        OnText(n, t, s2) ==
            IF has(n) /\ "OnText" \in C.cb THEN <<Call("OnText", Nil, s2, Nil, t)>>
            ELSE << >>
        Paint(p, calls) == [C EXCEPT !.path = Clear(p), !.calls = calls]
        nextLineText == [text EXCEPT !.LineMatrix = nextLine, !.TextMatrix = nextLine]
        quoteText == [text EXCEPT !.WordSpace = f(1), !.CharSpace = f(2),
                                  !.LineMatrix = nextLine, !.TextMatrix = nextLine]
    IN CASE op.Name = "q" -> Push(C)
         [] op.Name = "Q" -> Pop(C)
         [] op.Name = "cm" ->
              SetIf(6, [state EXCEPT !.CTM = Multiply(state.CTM, OperandMatrix(o))])
         [] op.Name = "w" -> SetIf(1, [state EXCEPT !.LineWidth = f(1)])
         [] op.Name = "J" -> SetIf(1, [state EXCEPT !.LineCap = toInt(o[1])])
         [] op.Name = "j" -> SetIf(1, [state EXCEPT !.LineJoin = toInt(o[1])])
         [] op.Name = "M" -> SetIf(1, [state EXCEPT !.MiterLimit = f(1)])
         [] op.Name = "d" ->
              SetIf(2, [state EXCEPT
                           !.DashPattern =
                               IF o[1].k = "arr"
                               THEN [j \in 1..Len(o[1].items) |-> toFloat(o[1].items[j])]
                               ELSE @,
                           !.DashPhase = f(2)])
         [] op.Name = "ri" -> SetIf(1, [state EXCEPT !.RenderingIntent = toString(o[1])])
         [] op.Name = "i" -> SetIf(1, [state EXCEPT !.Flatness = f(1)])
         [] op.Name = "m" -> PathIf(2, MoveTo(C.path, f(1), f(2)))
         [] op.Name = "l" -> PathIf(2, LineTo(C.path, f(1), f(2)))
         [] op.Name = "c" ->
              PathIf(6, CurveTo(C.path, f(1), f(2), f(3), f(4), f(5), f(6)))
         [] op.Name = "v" -> PathIf(4, CurveToV(C.path, f(1), f(2), f(3), f(4)))
         [] op.Name = "y" -> PathIf(4, CurveToY(C.path, f(1), f(2), f(3), f(4)))
         [] op.Name = "h" -> [C EXCEPT !.path = Close(@)]
         [] op.Name = "re" -> PathIf(4, Rect(C.path, f(1), f(2), f(3), f(4)))
         [] op.Name = "S" -> Paint(C.path, OnStroke(C.path))
         [] op.Name = "s" -> Paint(Close(C.path), OnStroke(Close(C.path)))
         [] op.Name \in {"f", "F"} -> Paint(C.path, OnFill(C.path, FillRuleNonZero))
         [] op.Name = "f*" -> Paint(C.path, OnFill(C.path, FillRuleEvenOdd))
         [] op.Name = "B" ->
              Paint(C.path, OnFill(C.path, FillRuleNonZero) \o OnStroke(C.path))
         [] op.Name = "B*" ->
              Paint(C.path, OnFill(C.path, FillRuleEvenOdd) \o OnStroke(C.path))
         [] op.Name = "b" ->
              Paint(Close(C.path),
                    OnFill(Close(C.path), FillRuleNonZero) \o OnStroke(Close(C.path)))
         [] op.Name = "b*" ->
              Paint(Close(C.path),
                    OnFill(Close(C.path), FillRuleEvenOdd) \o OnStroke(Close(C.path)))
         [] op.Name = "n" -> Paint(C.path, << >>)
         [] op.Name = "W" ->
              [Set([state EXCEPT !.ClipPath = PathClone(C.path)])
                  EXCEPT !.calls = OnClip(FillRuleNonZero)]
         [] op.Name = "W*" ->
              [Set([state EXCEPT !.ClipPath = PathClone(C.path)])
                  EXCEPT !.calls = OnClip(FillRuleEvenOdd)]
         [] op.Name = "CS" -> SetIf(1, [state EXCEPT !.StrokeColorSpace = toString(o[1])])
         [] op.Name = "cs" -> SetIf(1, [state EXCEPT !.FillColorSpace = toString(o[1])])
         [] op.Name \in {"SC", "SCN"} ->
              Set([state EXCEPT !.StrokeColor = parseColor(state.StrokeColorSpace, o)])
         [] op.Name \in {"sc", "scn"} ->
              Set([state EXCEPT !.FillColor = parseColor(state.FillColorSpace, o)])
         [] op.Name = "G" ->
              SetIf(1, [state EXCEPT !.StrokeColorSpace = "DeviceGray",
                                     !.StrokeColor = NewGray(f(1))])
         [] op.Name = "g" ->
              SetIf(1, [state EXCEPT !.FillColorSpace = "DeviceGray",
                                     !.FillColor = NewGray(f(1))])
         [] op.Name = "RG" ->
              SetIf(3, [state EXCEPT !.StrokeColorSpace = "DeviceRGB",
                                     !.StrokeColor = NewRGB(f(1), f(2), f(3))])
         [] op.Name = "rg" ->
              SetIf(3, [state EXCEPT !.FillColorSpace = "DeviceRGB",
                                     !.FillColor = NewRGB(f(1), f(2), f(3))])
         [] op.Name = "K" ->
              SetIf(4, [state EXCEPT !.StrokeColorSpace = "DeviceCMYK",
                                     !.StrokeColor = NewCMYK(f(1), f(2), f(3), f(4))])
         [] op.Name = "k" ->
              SetIf(4, [state EXCEPT !.FillColorSpace = "DeviceCMYK",
                                     !.FillColor = NewCMYK(f(1), f(2), f(3), f(4))])
         [] op.Name = "BT" ->
              SetText([text EXCEPT !.TextMatrix = Identity, !.LineMatrix = Identity])
         [] op.Name = "Tc" -> SetTextIf(1, [text EXCEPT !.CharSpace = f(1)])
         [] op.Name = "Tw" -> SetTextIf(1, [text EXCEPT !.WordSpace = f(1)])
         [] op.Name = "Tz" -> SetTextIf(1, [text EXCEPT !.HScale = f(1)])
         [] op.Name = "TL" -> SetTextIf(1, [text EXCEPT !.Leading = f(1)])
         [] op.Name = "Tf" ->
              SetTextIf(2, [text EXCEPT !.FontName = toString(o[1]), !.FontSize = f(2)])
         [] op.Name = "Tr" -> SetTextIf(1, [text EXCEPT !.RenderMode = toInt(o[1])])
         [] op.Name = "Ts" -> SetTextIf(1, [text EXCEPT !.Rise = f(1)])
         [] op.Name = "Td" ->
              SetTextIf(2, [text EXCEPT !.LineMatrix = moved, !.TextMatrix = moved])
         [] op.Name = "TD" ->
              SetTextIf(2, [text EXCEPT !.Leading = 0 - f(2),
                                        !.LineMatrix = moved, !.TextMatrix = moved])
         [] op.Name = "Tm" ->
              SetTextIf(6, [text EXCEPT !.TextMatrix = OperandMatrix(o),
                                        !.LineMatrix = OperandMatrix(o)])
         [] op.Name = "T*" -> SetText(nextLineText)
         [] op.Name = "Tj" ->
              [C EXCEPT !.calls = IF has(1) THEN OnText(1, toString(o[1]), state)
                                  ELSE << >>]
         [] op.Name = "TJ" ->
              [C EXCEPT !.calls = IF has(1) /\ o[1].k = "arr"
                                     /\ textOf(o[1].items, 1) # ""
                                  THEN OnText(1, textOf(o[1].items, 1), state)
                                  ELSE << >>]
         [] op.Name = "'" ->
              [SetText(nextLineText) EXCEPT
                  !.calls = IF has(1)
                            THEN OnText(1, toString(o[1]),
                                        [state EXCEPT !.TextState = nextLineText])
                            ELSE << >>]
         [] op.Name = "\"" ->
              IF has(3)
              THEN [SetText(quoteText) EXCEPT
                       !.calls = OnText(3, toString(o[3]),
                                        [state EXCEPT !.TextState = quoteText])]
              ELSE C
         [] op.Name = "Do" ->
              [C EXCEPT !.calls = IF has(1) /\ "OnImage" \in C.cb
                                  THEN <<Call("OnImage", Nil, state, Nil,
                                              toString(o[1]))>>
                                  ELSE << >>]
         \* gs looks its name up and applies nothing (applyExtGState); BI, ID,
         \* EI, sh, BMC and every other name have no case
         [] OTHER -> C

(***************************************************************************)
(* Content streams (src/unnamed/part_003).  A content stream is a sequence *)
(* of characters, a token a sequence of characters too.                    *)
(***************************************************************************)
RECURSIVE Join(_, _)
\* string(tok[j:])
Join(tok, j) == IF j > Len(tok) THEN "" ELSE tok[j] \o Join(tok, j + 1)

isDelimiter(c) == c \in {"(", ")", "<", ">", "[", "]", "/", "%"}

isSpace(c) == c \in {" ", "\t", "\r", "\n"}

\* tokens = append(tokens, current.String()); current.Reset(), when
\* current.Len() > 0
Flush(T) ==
    IF Len(T.current) > 0
    THEN [T EXCEPT !.tokens = Append(@, T.current), !.current = << >>]
    ELSE T

RECURSIVE NameEnd(_, _)
\* the index of the last character of the name that starts at s[i]
NameEnd(s, i) ==
    IF i + 1 <= Len(s) /\ ~isDelimiter(s[i + 1]) /\ ~isSpace(s[i + 1])
    THEN NameEnd(s, i + 1)
    ELSE i

RECURSIVE CommentEnd(_, _)
\* the index the loop over a comment stops at: a line end, or past the end
CommentEnd(s, i) ==
    IF i <= Len(s) /\ s[i] # "\n" /\ s[i] # "\r" THEN CommentEnd(s, i + 1) ELSE i

\* one turn of the loop of tokenize, at s[i]: the index of the next turn and
\* the local variables T as the turn leaves them
tokenizeChar(s, i, T) ==
    LET c == s[i]
        to(j, T2) == [i |-> j, T |-> T2]
    IN IF T.inString
       THEN IF c = "\\" /\ i + 1 <= Len(s)
            THEN to(i + 2, [T EXCEPT !.current = Append(Append(@, c), s[i + 1])])
            ELSE IF c = "("
            THEN to(i + 1, [T EXCEPT !.current = Append(@, c), !.parenDepth = @ + 1])
            ELSE IF c = ")"
            THEN IF T.parenDepth - 1 = 0
                 THEN to(i + 1, [T EXCEPT !.tokens = Append(@, Append(T.current, c)),
                                          !.current = << >>,
                                          !.parenDepth = 0,
                                          !.inString = FALSE])
                 ELSE to(i + 1, [T EXCEPT !.current = Append(@, c),
                                          !.parenDepth = @ - 1])
            ELSE to(i + 1, [T EXCEPT !.current = Append(@, c)])
       ELSE IF T.inHex
       THEN IF c = ">"
            THEN to(i + 1, [T EXCEPT !.tokens = Append(@, Append(T.current, c)),
                                     !.current = << >>,
                                     !.inHex = FALSE])
            ELSE to(i + 1, [T EXCEPT !.current = Append(@, c)])
       ELSE IF c = "("
       THEN to(i + 1, [Flush(T) EXCEPT !.current = <<c>>, !.inString = TRUE,
                                       !.parenDepth = 1])
       ELSE IF c = "<"
       THEN to(i + 1, [Flush(T) EXCEPT !.current = <<c>>, !.inHex = TRUE])
       ELSE IF c \in {"[", "]"}
       THEN to(i + 1, [Flush(T) EXCEPT !.tokens = Append(@, <<c>>)])
       ELSE IF isSpace(c) THEN to(i + 1, Flush(T))
       ELSE IF c = "/"
       THEN to(NameEnd(s, i) + 1,
               [Flush(T) EXCEPT !.tokens = Append(@, SubSeq(s, i, NameEnd(s, i)))])
       ELSE IF c = "%" THEN to(CommentEnd(s, i) + 1, Flush(T))
       ELSE to(i + 1, [T EXCEPT !.current = Append(@, c)])

RECURSIVE tokenizeFrom(_, _)
\* the loop of tokenize from turn R on
tokenizeFrom(s, R) ==
    IF R.i > Len(s) THEN Flush(R.T).tokens
    ELSE tokenizeFrom(s, tokenizeChar(s, R.i, R.T))

tokenize(s) ==
    tokenizeFrom(s, [i |-> 1,
                     T |-> [tokens |-> << >>, current |-> << >>, inString |-> FALSE,
                            parenDepth |-> 0, inHex |-> FALSE]])

Digits == {"0", "1", "2", "3", "4", "5", "6", "7", "8", "9"}

isOperator(tok) ==
    IF Len(tok) = 0 THEN FALSE
    ELSE IF tok[1] \in {"/", "(", "<", "[", "]"} THEN FALSE
    ELSE IF tok[1] \in Digits \cup {"-", "+", "."} THEN FALSE
    ELSE IF Join(tok, 1) \in {"true", "false", "null"} THEN FALSE
    ELSE TRUE

DigitValue(c) == CHOOSE v \in 0..9 : ToString(v) = c

RECURSIVE DigitsValue(_, _, _)
DigitsValue(tok, j, acc) ==
    IF j > Len(tok) THEN acc ELSE DigitsValue(tok, j + 1, 10 * acc + DigitValue(tok[j]))

\* strconv.ParseFloat on the numbers of this model: an optional sign and
\* decimal digits.  Every other token of this model fails to parse.
ParseFloat(tok) ==
    LET signed == Len(tok) > 0 /\ tok[1] \in {"-", "+"}
        first == IF signed THEN 2 ELSE 1
        value == DigitsValue(tok, first, 0)
    IN IF first <= Len(tok) /\ \A j \in first..Len(tok) : tok[j] \in Digits
       THEN [ok |-> TRUE, v |-> IF signed /\ tok[1] = "-" THEN 0 - value ELSE value]
       ELSE [ok |-> FALSE, v |-> 0]

BoolOperand(b) == [k |-> "bool", b |-> b]

\* parseOperand.  The literal strings of this model hold no backslash, and
\* its streams no hexadecimal string, so decodeString returns its argument.
parseOperand(tok) ==
    IF Len(tok) = 0 THEN Nil
    ELSE IF tok[1] = "(" /\ tok[Len(tok)] = ")"
    THEN StrOperand(Join(SubSeq(tok, 2, Len(tok) - 1), 1))
    ELSE IF tok[1] = "/" THEN StrOperand(Join(tok, 2))
    ELSE IF Join(tok, 1) = "true" THEN BoolOperand(TRUE)
    ELSE IF Join(tok, 1) = "false" THEN BoolOperand(FALSE)
    ELSE IF Join(tok, 1) = "null" THEN Nil
    ELSE IF ParseFloat(tok).ok THEN NumOperand(ParseFloat(tok).v)
    ELSE StrOperand(Join(tok, 1))

\* a mutation of the loop body that keeps the operands after an operator
parseTokenKeepsOperands(acc, tok) ==
    IF isOperator(tok)
    THEN [acc EXCEPT !.ops = Append(@, Operator(Join(tok, 1), acc.operands))]
    ELSE [acc EXCEPT !.operands = Append(@, parseOperand(tok))]

\* the body of the loop of ParseContentStream
parseToken(acc, tok) ==
    IF isOperator(tok)
    THEN [ops |-> Append(acc.ops, Operator(Join(tok, 1), acc.operands)),
          operands |-> << >>]
    ELSE [acc EXCEPT !.operands = Append(@, parseOperand(tok))]

RECURSIVE parseTokens(_, _, _)
parseTokens(tokens, j, acc) ==
    IF j > Len(tokens) THEN acc.ops
    ELSE parseTokens(tokens, j + 1, parseToken(acc, tokens[j]))

ParseContentStream(data) ==
    parseTokens(tokenize(data), 1, [ops |-> << >>, operands |-> << >>])

(***************************************************************************)
(* Strings and names, as the COS lexer (src/pkg/cos/xref.go) and as the    *)
(* content-stream parser (src/unnamed/part_003) decode them.  The source   *)
(* text is a sequence of bytes; tokenize is handed its characters.         *)
(***************************************************************************)
\* the lexer's isDelimiter
isDelimiterByte(b) == b \in {40, 41, 60, 62, 91, 93, 123, 125, 47, 37}

\* the two characters at p are hexadecimal digits:
\* strconv.ParseUint(hex, 16, 8) succeeds
isHexPair(bytes, p) == hexNibble(bytes[p]) >= 0 /\ hexNibble(bytes[p + 1]) >= 0

hexPairValue(bytes, p) == 16 * hexNibble(bytes[p]) + hexNibble(bytes[p + 1])

RECURSIVE scanNameFrom(_, _, _)
scanNameFrom(bytes, p, buf) ==
    IF p > Len(bytes) THEN buf
    ELSE IF isWhitespace(bytes[p]) \/ isDelimiterByte(bytes[p]) THEN buf
    ELSE IF bytes[p] = 35 /\ p + 2 <= Len(bytes) /\ isHexPair(bytes, p + 1)
    THEN scanNameFrom(bytes, p + 3, Append(buf, hexPairValue(bytes, p + 1)))
    ELSE scanNameFrom(bytes, p + 1, Append(buf, bytes[p]))

\* bytes[1] is the slash
scanName(bytes) == [Type |-> "Name", Value |-> scanNameFrom(bytes, 2, << >>)]

\* the characters of a hex string up to '>', whitespace left out
RECURSIVE hexBufFrom(_, _, _)
hexBufFrom(bytes, p, hexBuf) ==
    IF p > Len(bytes) \/ bytes[p] = 62 THEN hexBuf
    ELSE hexBufFrom(bytes, p + 1,
                    IF isWhitespace(bytes[p]) THEN hexBuf ELSE Append(hexBuf, bytes[p]))

\* the pairs of hexStr decoded; a pair that is no hexadecimal number writes
\* nothing
RECURSIVE hexPairsFrom(_, _)
hexPairsFrom(hexStr, i) ==
    IF i > Len(hexStr) THEN << >>
    ELSE (IF isHexPair(hexStr, i) THEN <<hexPairValue(hexStr, i)>> ELSE << >>)
             \o hexPairsFrom(hexStr, i + 2)

\* bytes[1] is the '<'
scanHexString(bytes) ==
    LET hexBuf == hexBufFrom(bytes, 2, << >>)
        hexStr == IF Len(hexBuf) % 2 = 1 THEN Append(hexBuf, 48) ELSE hexBuf
    IN [Type |-> "String", Value |-> hexPairsFrom(hexStr, 1)]

\* Lexer.NextToken at a '/', a '(' or a '<' that opens no dictionary
NextToken(bytes) ==
    CASE bytes[1] = 47 -> scanName(bytes)
      [] bytes[1] = 40 -> scanLiteralString(bytes)
      [] bytes[1] = 60 -> scanHexString(bytes)

\* what decodeString writes for the escape whose character is at p, and the
\* index after it
decodeEscape(s, p) ==
    CASE s[p] = 110 -> [out |-> <<10>>, next |-> p + 1]
      [] s[p] = 114 -> [out |-> <<13>>, next |-> p + 1]
      [] s[p] = 116 -> [out |-> <<9>>, next |-> p + 1]
      [] s[p] = 98 -> [out |-> <<8>>, next |-> p + 1]
      [] s[p] = 102 -> [out |-> <<12>>, next |-> p + 1]
      [] s[p] = 40 -> [out |-> <<40>>, next |-> p + 1]
      [] s[p] = 41 -> [out |-> <<41>>, next |-> p + 1]
      [] s[p] = 92 -> [out |-> <<92>>, next |-> p + 1]
      [] OTHER ->
            IF isOctalDigit(s[p])
            THEN [out |-> octalBytes(s, p), next |-> p + octalLen(s, p)]
            ELSE [out |-> <<s[p]>>, next |-> p + 1]

RECURSIVE decodeStringFrom(_, _, _)
decodeStringFrom(s, i, result) ==
    IF i > Len(s) THEN result
    ELSE IF s[i] = 92 /\ i + 1 <= Len(s)
    THEN decodeStringFrom(s, decodeEscape(s, i + 1).next,
                          result \o decodeEscape(s, i + 1).out)
    ELSE decodeStringFrom(s, i + 1, Append(result, s[i]))

decodeString(s) == decodeStringFrom(s, 1, << >>)

RECURSIVE decodeHexFrom(_, _, _, _, _)
decodeHexFrom(s, i, hex, hasNibble, result) ==
    IF i > Len(s) THEN IF hasNibble THEN Append(result, (hex * 16) % 256) ELSE result
    ELSE IF s[i] \in {32, 9, 13, 10} \/ hexNibble(s[i]) < 0
    THEN decodeHexFrom(s, i + 1, hex, hasNibble, result)
    ELSE IF hasNibble
    THEN decodeHexFrom(s, i + 1, hex, FALSE,
                       Append(result, ((hex * 16) % 256) + hexNibble(s[i])))
    ELSE decodeHexFrom(s, i + 1, hexNibble(s[i]), TRUE, result)

decodeHexString(s) == decodeHexFrom(s, 1, 0, FALSE, << >>)

\* the characters of the source texts, by their byte
CharOf ==
    (40 :> "(") @@ (41 :> ")") @@ (60 :> "<") @@ (62 :> ">") @@ (47 :> "/")
        @@ (92 :> "\\") @@ (35 :> "#") @@ (10 :> "\n") @@ (13 :> "\r") @@ (32 :> " ")
        @@ (110 :> "n") @@ (114 :> "r") @@ (116 :> "t") @@ (98 :> "b") @@ (102 :> "f")
        @@ (120 :> "x") @@ (65 :> "A") @@ (70 :> "F") @@ (97 :> "a")
        @@ (48 :> "0") @@ (49 :> "1") @@ (52 :> "4") @@ (55 :> "7")

ToChars(bytes) == [i \in 1..Len(bytes) |-> CharOf[bytes[i]]]

ToBytes(chars) ==
    [i \in 1..Len(chars) |-> CHOOSE b \in DOMAIN CharOf : CharOf[b] = chars[i]]

\* parseOperand on the bytes of a token that starts a string, a hex string
\* or a name: the bytes of the string it returns
parseOperandBytes(tok) ==
    IF tok[1] = 40 /\ tok[Len(tok)] = 41
    THEN decodeString(SubSeq(tok, 2, Len(tok) - 1))
    ELSE IF tok[1] = 60 /\ tok[Len(tok)] = 62
    THEN decodeHexString(SubSeq(tok, 2, Len(tok) - 1))
    ELSE IF tok[1] = 47 THEN SubSeq(tok, 2, Len(tok))
    ELSE tok

\* the operands the content-stream parser collects from the source text
contentOperands(src) ==
    LET tokens == tokenize(ToChars(src))
    IN [j \in 1..Len(tokens) |-> parseOperandBytes(ToBytes(tokens[j]))]

(***************************************************************************)
(* Point containment (src/pkg/graphics/path.go)                            *)
(***************************************************************************)
isLeft(p0, p1, p2) ==
    (p1[1] - p0[1]) * (p2[2] - p0[2]) - (p2[1] - p0[1]) * (p1[2] - p0[2])

windingLine(pt, p1, p2) ==
    IF p1[2] <= pt[2]
    THEN IF p2[2] > pt[2] /\ isLeft(p1, p2, pt) > 0 THEN 1 ELSE 0
    ELSE IF p2[2] <= pt[2] /\ isLeft(p1, p2, pt) < 0 THEN 0 - 1 ELSE 0

\* x > pt.X for x = p1.X + t * (p2.X - p1.X), t = (pt.Y - p1.Y) / (p2.Y - p1.Y),
\* with both sides multiplied by p2.Y - p1.Y
rayIntersectsLine(pt, p1, p2) ==
    IF (p1[2] > pt[2]) = (p2[2] > pt[2]) THEN FALSE
    ELSE LET dy == p2[2] - p1[2]
             x == p1[1] * dy + (pt[2] - p1[2]) * (p2[1] - p1[1])
         IN IF dy > 0 THEN x > pt[1] * dy ELSE x < pt[1] * dy

\* the line a segment draws from prevPt (none for MoveTo), as <<from, to>>
SegmentLine(seg, prevPt, startPt) ==
    IF seg.Op = "LineTo" /\ Len(seg.Points) > 0 THEN <<<<prevPt, seg.Points[1]>>>>
    ELSE IF seg.Op = "CurveTo" /\ Len(seg.Points) >= 3
    THEN <<<<prevPt, seg.Points[3]>>>>
    ELSE IF seg.Op = "Close" THEN <<<<prevPt, startPt>>>>
    ELSE << >>

\* prevPt and startPt after a segment
SegmentEnd(seg, prevPt, startPt) ==
    IF seg.Op = "MoveTo" /\ Len(seg.Points) > 0
    THEN [prevPt |-> seg.Points[1], startPt |-> seg.Points[1]]
    ELSE IF seg.Op = "LineTo" /\ Len(seg.Points) > 0
    THEN [prevPt |-> seg.Points[1], startPt |-> startPt]
    ELSE IF seg.Op = "CurveTo" /\ Len(seg.Points) >= 3
    THEN [prevPt |-> seg.Points[3], startPt |-> startPt]
    ELSE IF seg.Op = "Close" THEN [prevPt |-> startPt, startPt |-> startPt]
    ELSE [prevPt |-> prevPt, startPt |-> startPt]

RECURSIVE windingFrom(_, _, _, _, _)
\* the loop of containsNonZero from segment j on
windingFrom(p, pt, j, prevPt, startPt) ==
    IF j > Len(p.Segments) THEN 0
    ELSE LET seg == p.Segments[j]
             line == SegmentLine(seg, prevPt, startPt)
             next == SegmentEnd(seg, prevPt, startPt)
         IN (IF Len(line) > 0 THEN windingLine(pt, line[1][1], line[1][2]) ELSE 0)
            + windingFrom(p, pt, j + 1, next.prevPt, next.startPt)

containsNonZero(p, pt) == windingFrom(p, pt, 1, Point(0, 0), Point(0, 0)) # 0

RECURSIVE crossingsFrom(_, _, _, _, _)
\* the loop of containsEvenOdd from segment j on
crossingsFrom(p, pt, j, prevPt, startPt) ==
    IF j > Len(p.Segments) THEN 0
    ELSE LET seg == p.Segments[j]
             line == SegmentLine(seg, prevPt, startPt)
             next == SegmentEnd(seg, prevPt, startPt)
         IN (IF Len(line) > 0 /\ rayIntersectsLine(pt, line[1][1], line[1][2])
             THEN 1 ELSE 0)
            + crossingsFrom(p, pt, j + 1, next.prevPt, next.startPt)

containsEvenOdd(p, pt) == crossingsFrom(p, pt, 1, Point(0, 0), Point(0, 0)) % 2 = 1

Contains(p, pt, rule) ==
    IF rule = FillRuleEvenOdd THEN containsEvenOdd(p, pt) ELSE containsNonZero(p, pt)

(***************************************************************************)
(* Canvas and Renderer (src/unnamed/part_004, src/pkg/raster/renderer.go). *)
(* A pixel is White (the background), Transparent, or a colour.  The page  *)
(* is rendered at 72 dpi, one pixel per unit.                              *)
(***************************************************************************)
White == [k |-> "white"]

Transparent == [k |-> "transparent"]

Pixels(width, height) == (0..(width - 1)) \X (0..(height - 1))

NewCanvas(width, height) ==
    [width |-> width, height |-> height,
     img |-> [px \in Pixels(width, height) |-> White]]

\* the coverage vector.Rasterizer accumulates for the closed polygons of
\* path: the signed area under every edge, the sum clamped, which covers a
\* pixel when the winding number at its centre is not zero, whatever the fill
\* rule is.  The centre of pixel <<x, y>> is (x + 1/2, y + 1/2): the test is
\* made with every coordinate doubled.
Covered(path, px) ==
    containsNonZero(PathTransform(path, <<2, 0, 0, 2, 0, 0>>),
                    Point(2 * px[1] + 1, 2 * px[2] + 1))

\* Canvas.Fill.  With draw.Over a covered pixel takes the colour; with
\* draw.Src, which is all the even-odd rule selects, every pixel of the
\* canvas takes the colour times its coverage.
Fill(c, path, col, rule) ==
    IF IsEmpty(path) THEN c
    ELSE [c EXCEPT !.img =
             [px \in DOMAIN @ |->
                 IF Covered(path, px) THEN col
                 ELSE IF rule = FillRuleEvenOdd THEN Transparent
                 ELSE @[px]]]

transformPoint(x, y, pageHeight, scale) == <<x * scale, (pageHeight - y) * scale>>

RECURSIVE transformPathFrom(_, _, _, _, _)
\* the loop of transformPath from segment j on
transformPathFrom(p, j, pageHeight, scale, result) ==
    IF j > Len(p.Segments) THEN result
    ELSE LET seg == p.Segments[j]
             t(n) == transformPoint(seg.Points[n][1], seg.Points[n][2],
                                    pageHeight, scale)
         IN transformPathFrom(p, j + 1, pageHeight, scale,
               IF seg.Op = "MoveTo" /\ Len(seg.Points) > 0
               THEN MoveTo(result, t(1)[1], t(1)[2])
               ELSE IF seg.Op = "LineTo" /\ Len(seg.Points) > 0
               THEN LineTo(result, t(1)[1], t(1)[2])
               ELSE IF seg.Op = "CurveTo" /\ Len(seg.Points) >= 3
               THEN CurveTo(result, t(1)[1], t(1)[2], t(2)[1], t(2)[2],
                            t(3)[1], t(3)[2])
               ELSE IF seg.Op = "Close" THEN Close(result)
               ELSE result)

transformPath(p, pageHeight, scale) == transformPathFrom(p, 1, pageHeight, scale, NewPath)

RECURSIVE RenderCalls(_, _, _)
\* the callbacks of Renderer.RenderPage, for the invocations calls[j..].
\* The content streams that are rendered hold no stroking operator, text or
\* image; OnText and OnImage draw nothing.
RenderCalls(c, calls, j) ==
    IF j > Len(calls) THEN c
    ELSE RenderCalls(
             IF calls[j].cb = "OnFill"
             THEN Fill(c, transformPath(calls[j].path, c.height, 1),
                       calls[j].state.FillColor, calls[j].rule)
             ELSE c,
             calls, j + 1)

(***************************************************************************)
(* The size of a rendered image (src/pkg/api/document.go, options.go,      *)
(* src/pkg/raster/renderer.go, src/unnamed/part_004).  Page dimensions,    *)
(* DPI and Scale are whole numbers, for which the floating-point quotient  *)
(* has the ceiling of the exact one.                                       *)
(***************************************************************************)
RenderOptions(dpi, scale) == [DPI |-> dpi, Scale |-> scale]

DefaultRenderOptions == RenderOptions(150, 1)

\* math.Ceil(a / b) for a >= 0, b > 0
Ceil(a, b) == (a + b - 1) \div b

\* the width and height of the canvas NewCanvasWithDPI makes
NewCanvasWithDPI(pageWidth, pageHeight, dpi) ==
    [width |-> Ceil(pageWidth * dpi, 72), height |-> Ceil(pageHeight * dpi, 72)]

\* the page dimensions RenderPage takes from the MediaBox, US Letter when
\* the page has none of four numbers
pageDimensions(mediaBox) ==
    IF Len(mediaBox) >= 4
    THEN [width |-> mediaBox[3] - mediaBox[1], height |-> mediaBox[4] - mediaBox[2]]
    ELSE [width |-> 612, height |-> 792]

\* the size of the image RenderPage returns under the renderer's dpi
renderPageSize(mediaBox, dpi) ==
    NewCanvasWithDPI(pageDimensions(mediaBox).width, pageDimensions(mediaBox).height, dpi)

\* the size of the image Document.RenderWithOptions returns: SetDPI(opts.DPI),
\* then RenderPage
renderWithOptionsSize(mediaBox, opts) == renderPageSize(mediaBox, opts.DPI)

(***************************************************************************)
(* Font renderer (src/pkg/font/renderer.go, src/unnamed/part_006).  A font *)
(* is the sequence of its parsed glyphs, glyph ID g at index g + 1.  A     *)
(* glyph is [NumContours, EndPtsOfContours, Flags, XCoordinates,           *)
(* YCoordinates, Components]; Flags holds the on-curve bit of each point.  *)
(* The Renderer is a fresh one: scale 1, hScale 1.  Coordinates are        *)
(* multiples of 6, which keeps midpoints and the cubic control points      *)
(* integers.  GlyphToPath returns [st, path], st "ok", "err" or "overflow" *)
(* (the recursion never returns and the stack overflows).                  *)
(***************************************************************************)
Glyph(numContours, endPts, flags, xs, ys, components) ==
    [NumContours |-> numContours, EndPtsOfContours |-> endPts, Flags |-> flags,
     XCoordinates |-> xs, YCoordinates |-> ys, Components |-> components]

GlyphComponent(glyphIndex, arg1, arg2) ==
    [GlyphIndex |-> glyphIndex, Arg1 |-> arg1, Arg2 |-> arg2,
     Scale |-> 1, ScaleX |-> 1, ScaleY |-> 1, Scale01 |-> 0, Scale10 |-> 0]

\* Font.GetGlyph on the parsed glyphs: [ok, glyph]
GetGlyph(font, glyphID) ==
    IF glyphID >= Len(font) THEN [ok |-> FALSE, glyph |-> Nil]
    ELSE [ok |-> TRUE, glyph |-> font[glyphID + 1]]

IsCompound(glyph) == glyph.NumContours < 0

\* Glyph.GetContour: the points [x, y, on] of contour contourIdx (from 0)
GetContour(glyph, contourIdx) ==
    IF contourIdx < 0 \/ contourIdx >= Len(glyph.EndPtsOfContours) THEN << >>
    ELSE LET start == IF contourIdx > 0
                      THEN glyph.EndPtsOfContours[contourIdx] + 1 ELSE 0
             end == glyph.EndPtsOfContours[contourIdx + 1] + 1
         IN [i \in 1..(end - start) |->
                LET idx == start + i
                IN [x |-> IF idx <= Len(glyph.XCoordinates)
                          THEN glyph.XCoordinates[idx] ELSE 0,
                    y |-> IF idx <= Len(glyph.YCoordinates)
                          THEN glyph.YCoordinates[idx] ELSE 0,
                    on |-> IF idx <= Len(glyph.Flags) THEN glyph.Flags[idx]
                           ELSE FALSE]]

\* the index (from 0) of the first on-curve point, -1 when there is none
firstOnCurveFrom(pts, i) ==
    IF \E j \in (i + 1)..Len(pts) : pts[j].on
    THEN (CHOOSE j \in (i + 1)..Len(pts) :
             pts[j].on /\ \A k \in (i + 1)..(j - 1) : ~pts[k].on) - 1
    ELSE -1

\* the quadratic curve from the current point with control point (x, y) to
\* (endX, endY), as a cubic
quadTo(path, x, y, endX, endY) ==
    LET cur == path.current
    IN CurveTo(path, cur[1] + (2 * (x - cur[1])) \div 3,
                     cur[2] + (2 * (y - cur[2])) \div 3,
                     endX + (2 * (x - endX)) \div 3,
                     endY + (2 * (y - endY)) \div 3,
                     endX, endY)

\* the walk through the points of a contour, at point i with count points
\* done
RECURSIVE walkContour(_, _, _, _)
walkContour(path, pts, i, count) ==
    LET numPoints == Len(pts)
        p == pts[i + 1]
        nextI == (i + 1) % numPoints
        next == pts[nextI + 1]
    IN IF count >= numPoints THEN path
       ELSE IF p.on
       THEN walkContour(LineTo(path, p.x, p.y), pts, (i + 1) % numPoints, count + 1)
       ELSE IF next.on
       THEN walkContour(quadTo(path, p.x, p.y, next.x, next.y), pts,
                        (nextI + 1) % numPoints, count + 2)
       ELSE walkContour(quadTo(path, p.x, p.y, (p.x + next.x) \div 2,
                               (p.y + next.y) \div 2),
                        pts, (i + 1) % numPoints, count + 1)

\* one contour added to the path
contourToPath(path, pts) ==
    LET numPoints == Len(pts)
        firstOnCurve == firstOnCurveFrom(pts, 0)
        startIdx == IF firstOnCurve >= 0 THEN firstOnCurve ELSE 0
        startX == IF firstOnCurve >= 0 THEN pts[startIdx + 1].x
                  ELSE (pts[1].x + pts[numPoints].x) \div 2
        startY == IF firstOnCurve >= 0 THEN pts[startIdx + 1].y
                  ELSE (pts[1].y + pts[numPoints].y) \div 2
    IN IF numPoints = 0 THEN path
       ELSE Close(walkContour(MoveTo(path, startX, startY), pts,
                              (startIdx + 1) % numPoints, 0))

RECURSIVE contoursFrom(_, _, _)
contoursFrom(path, glyph, c) ==
    IF c >= glyph.NumContours THEN path
    ELSE contoursFrom(contourToPath(path, GetContour(glyph, c)), glyph, c + 1)

simpleGlyphToPath(glyph) ==
    IF glyph.NumContours <= 0 THEN NewPath ELSE contoursFrom(NewPath, glyph, 0)

\* the segments of a transformed component added to result
RECURSIVE addSegments(_, _, _)
addSegments(result, segs, j) ==
    IF j > Len(segs) THEN result
    ELSE LET seg == segs[j]
             pt == seg.Points
         IN addSegments(
                CASE seg.Op = "MoveTo" /\ Len(pt) > 0 -> MoveTo(result, pt[1][1], pt[1][2])
                  [] seg.Op = "LineTo" /\ Len(pt) > 0 -> LineTo(result, pt[1][1], pt[1][2])
                  [] seg.Op = "CurveTo" /\ Len(pt) >= 3 ->
                        CurveTo(result, pt[1][1], pt[1][2], pt[2][1], pt[2][2],
                                pt[3][1], pt[3][2])
                  [] seg.Op = "Close" -> Close(result)
                  [] OTHER -> result,
                segs, j + 1)

\* the matrix of a component
componentMatrix(comp) ==
    LET scaled == IF comp.Scale # 1 \/ comp.ScaleX # 1 \/ comp.ScaleY # 1
                     \/ comp.Scale01 # 0 \/ comp.Scale10 # 0
                  THEN Multiply(Identity, <<comp.ScaleX, comp.Scale01, comp.Scale10,
                                            comp.ScaleY, 0, 0>>)
                  ELSE Identity
    IN Multiply(scaled, Translate(comp.Arg1, comp.Arg2))

\* GlyphToPath and compoundGlyphToPath call each other.  active holds the
\* glyph IDs on the call stack: a call for one of them repeats its caller's
\* call and so never returns.
RECURSIVE GlyphToPath(_, _, _)
RECURSIVE componentsFrom(_, _, _, _, _)

\* the loop over glyph.Components, from component k on
componentsFrom(font, glyph, k, result, active) ==
    IF k > Len(glyph.Components) THEN [st |-> "ok", path |-> result]
    ELSE Once(GlyphToPath(font, glyph.Components[k].GlyphIndex, active),
              LAMBDA comp :
                 IF comp.st = "overflow" THEN comp
                 ELSE IF comp.st = "err"
                 THEN componentsFrom(font, glyph, k + 1, result, active)
                 ELSE componentsFrom(font, glyph, k + 1,
                          addSegments(result,
                              PathTransform(comp.path,
                                  componentMatrix(glyph.Components[k])).Segments, 1),
                          active))

compoundGlyphToPath(font, glyph, active) ==
    componentsFrom(font, glyph, 1, NewPath, active)

GlyphToPath(font, glyphID, active) ==
    LET g == GetGlyph(font, glyphID)
    IN IF ~g.ok THEN [st |-> "err", path |-> Nil]
       ELSE IF glyphID \in active THEN [st |-> "overflow", path |-> Nil]
       ELSE IF IsCompound(g.glyph)
       THEN compoundGlyphToPath(font, g.glyph, active \cup {glyphID})
       ELSE [st |-> "ok", path |-> simpleGlyphToPath(g.glyph)]

(***************************************************************************)
(* The viewer (src/internal/gui/app.go).  app holds the fields of App      *)
(* (document, currentPage, dpi) and the position of its two threads: the   *)
(* goroutine RunWithFile starts ("loader") and the thread that runs the    *)
(* event handlers ("ui").  A Document is [id, pageCount].  A thread is     *)
(* [pc, doc, page, arg]: rendering, it is inside RenderWithOptions of doc  *)
(* for the index page.  The statements of a handler are steps of their     *)
(* own, so that those of the two threads interleave.                       *)
(***************************************************************************)
Threads == {"loader", "ui"}

Document(id, n) == [id |-> id, pageCount |-> n]

Thread(pc) == [pc |-> pc, doc |-> Nil, page |-> 0, arg |-> 0]

\* where a thread is when its handler has returned
Rest(t) == IF t = "ui" THEN "idle" ELSE "done"

\* NewApp and RunWithFile: the goroutine is about to call loadFile
NewApp ==
    [document |-> Nil, currentPage |-> 0, dpi |-> 150, opened |-> 0,
     th |-> [t \in Threads |-> IF t = "loader" THEN Thread("open") ELSE Thread("idle")]]

PageCounts == 0..MaxPages

\* goToPage: the page after the two clamps
clampPage(page, count) ==
    LET lower == IF page < 0 THEN 0 ELSE page
    IN IF lower >= count THEN count - 1 ELSE lower

(***************************************************************************)
(* The operators Execute is handed directly                                *)
(***************************************************************************)
Nums(q) == [j \in 1..Len(q) |-> NumOperand(q[j])]

OpInputs ==
    << Operator("q", << >>),
       Operator("Q", << >>),
       Operator("cm", Nums(<<2, 0, 0, 2, 0, 0>>)),
       Operator("cm", Nums(<<1, 0, 0, 1, 1, 0>>)),
       Operator("cm", Nums(<<3, 0, 0, 3, 0>>)),
       Operator("d", <<ArrOperand(Nums(<<2>>)), NumOperand(1)>>),
       Operator("re", Nums(<<0, 0, 1, 1>>)),
       Operator("W", << >>),
       Operator("rg", Nums(<<1, 0, 2>>)),
       Operator("Td", Nums(<<1, 0>>)) >>

(***************************************************************************)
(* The content streams that are parsed and executed: up to MaxChunks of    *)
(* the pieces below, one per line                                          *)
(***************************************************************************)
PaintingOperators == {"S", "s", "f", "F", "f*", "B", "B*", "b", "b*", "n"}

ContentChunks ==
    << <<"1", " ", "0", " ", "2", " ", "1", " ", "r", "e">>,
       <<"2", " ", "0", " ", "0", " ", "2", " ", "1", " ", "0", " ", "c", "m">>,
       <<"W">>,
       <<"7", " ", "x", "x">>,
       <<"[", "(", "A", ")", " ", "-", "1", " ", "(", "B", ")", "]", " ", "T", "J">>,
       <<"[", "3", " ", "2", "]", " ", "0", " ", "d">>,
       <<"S">>, <<"s">>, <<"f">>, <<"F">>, <<"f", "*">>,
       <<"B">>, <<"B", "*">>, <<"b">>, <<"b", "*">>, <<"n">> >>

\* the pieces of the content streams that are rendered: an inner square, the
\* square around it, clipping and filling
CanvasChunks ==
    << <<"1", " ", "1", " ", "1", " ", "1", " ", "r", "e">>,
       <<"0", " ", "0", " ", "3", " ", "3", " ", "r", "e">>,
       <<"W">>, <<"n">>, <<"f">>, <<"f", "*">> >>

\* the pieces of the content streams that are painted: an open subpath, a
\* CTM change, and the operators that fill
PaintChunks ==
    << <<"0", " ", "0", " ", "m", " ", "1", " ", "2", " ", "l">>,
       <<"2", " ", "0", " ", "0", " ", "2", " ", "1", " ", "0", " ", "c", "m">>,
       <<"f">>, <<"F">>, <<"f", "*">>, <<"B">>, <<"B", "*">>, <<"b">>, <<"b", "*">> >>

RECURSIVE Lines(_, _, _)
\* the chunks picks[j..] of chunks, each followed by a line end
Lines(chunks, picks, j) ==
    IF j > Len(picks) THEN << >>
    ELSE chunks[picks[j]] \o <<"\n">> \o Lines(chunks, picks, j + 1)

\* the callbacks Renderer.RenderPage installs, and every callback there is
RendererCallbacks == {"OnFill", "OnStroke", "OnText", "OnImage"}

AllCallbacks == RendererCallbacks \cup {"OnClip"}

(***************************************************************************)
(* Inputs of the filters, the predictors and the lexer                     *)
(***************************************************************************)
ByteStrings(alphabet, n) == UNION { [1..k -> alphabet] : k \in 0..n }

RECURSIVE Flatten(_, _)
Flatten(seqs, j) == IF j > Len(seqs) THEN << >> ELSE seqs[j] \o Flatten(seqs, j + 1)

\* the filter names filters.go defines, and two names it does not
DefinedFilters ==
    {"FlateDecode", "ASCIIHexDecode", "ASCII85Decode", "LZWDecode",
     "RunLengthDecode", "DCTDecode", "JPXDecode", "CCITTFaxDecode"}

PassThroughFilters == {"DCTDecode", "JPXDecode", "CCITTFaxDecode"}

UndefinedFilters == {"AHx", "Bogus"}

\* raw payloads: NUL, 'A' and the byte that starts an LZW clear code
RawBytes == {0, 65, 128}

\* the standard encodings of a byte string x
HexDigit(v, lower) == IF v < 10 THEN 48 + v ELSE (IF lower THEN 87 ELSE 55) + v

EncodeASCIIHex(x, lower) ==
    Flatten([j \in 1..Len(x) |-> <<HexDigit(x[j] \div 16, lower),
                                   HexDigit(x[j] % 16, lower)>>], 1) \o <<62>>

\* quotient and remainder of a uint32, held as two 16-bit halves, by 85
DivMod85(t) ==
    [q |-> Tuple(t.hi \div 85, ((t.hi % 85) * 65536 + t.lo) \div 85),
     r |-> ((t.hi % 85) * 65536 + t.lo) % 85]

RECURSIVE Digits85(_, _)
Digits85(t, n) ==
    IF n = 0 THEN << >> ELSE Append(Digits85(DivMod85(t).q, n - 1), 33 + DivMod85(t).r)

\* a group of one to four bytes, padded with zero bytes to four
Group85(g) ==
    IF g = <<0, 0, 0, 0>> THEN <<122>>
    ELSE SubSeq(Digits85(Tuple((IF Len(g) >= 1 THEN g[1] ELSE 0) * 256
                                  + (IF Len(g) >= 2 THEN g[2] ELSE 0),
                               (IF Len(g) >= 3 THEN g[3] ELSE 0) * 256
                                  + (IF Len(g) >= 4 THEN g[4] ELSE 0)), 5),
                1, Len(g) + 1)

RECURSIVE Groups85(_, _)
Groups85(x, i) ==
    IF i > Len(x) THEN << >>
    ELSE Group85(SubSeq(x, i, Min(i + 3, Len(x)))) \o Groups85(x, i + 4)

EncodeASCII85(x) == Groups85(x, 1) \o <<126, 62>>

\* the length of the run of equal bytes that starts at i
RECURSIVE RunAt(_, _)
RunAt(x, i) == IF i < Len(x) /\ x[i + 1] = x[i] THEN 1 + RunAt(x, i + 1) ELSE 1

RECURSIVE Runs(_, _)
Runs(x, i) ==
    IF i > Len(x) THEN << >>
    ELSE IF RunAt(x, i) >= 2 THEN <<257 - RunAt(x, i), x[i]>> \o Runs(x, i + RunAt(x, i))
    ELSE <<0, x[i]>> \o Runs(x, i + 1)

\* as one literal run, or as the repeat runs of its equal bytes
EncodeRunLength(x, repeats) ==
    IF repeats THEN Runs(x, 1) \o <<128>>
    ELSE IF Len(x) = 0 THEN <<128>>
    ELSE <<Len(x) - 1>> \o x \o <<128>>

PlainBytes == {0, 65, 255}

EncodedInputs ==
    UNION { { [filter |-> "ASCIIHexDecode", data |-> EncodeASCIIHex(x, FALSE), x |-> x],
              [filter |-> "ASCIIHexDecode", data |-> EncodeASCIIHex(x, TRUE), x |-> x],
              [filter |-> "ASCII85Decode", data |-> EncodeASCII85(x), x |-> x],
              [filter |-> "RunLengthDecode", data |-> EncodeRunLength(x, FALSE), x |-> x],
              [filter |-> "RunLengthDecode", data |-> EncodeRunLength(x, TRUE), x |-> x] }
            : x \in ByteStrings(PlainBytes, MaxPlainBytes) }

\* a call of Decode: on a raw payload with any filter name, with and without
\* a predictor, or on a standard encoding (x is then the string encoded)
DecodeInputs ==
    { [op |-> "Decode", filter |-> f, data |-> d, params |-> p, std |-> FALSE, x |-> << >>]
         : f \in DefinedFilters \cup UndefinedFilters,
           d \in ByteStrings(RawBytes, MaxRawBytes),
           p \in {DefaultDecodeParams, DecodeParams(12, 1, 8, 1, 1)} }
    \cup
    { [op |-> "Decode", filter |-> e.filter, data |-> e.data,
       params |-> DefaultDecodeParams, std |-> TRUE, x |-> e.x] : e \in EncodedInputs }

\* a call of DecodeStream: /Filter is a Name, or an Array whose first filter
\* is ASCIIHexDecode
StreamInputs ==
    { [op |-> "DecodeStream", filter |-> f,
       s |-> Stream([key \in {"Filter"} |->
                        IF inArray THEN Array(<<Name("ASCIIHexDecode"), Name(f)>>)
                        ELSE Name(f)],
                    d, << >>, << >>)]
         : f \in DefinedFilters \cup UndefinedFilters, inArray \in BOOLEAN,
           d \in ByteStrings(RawBytes, MaxRawBytes) }
    \cup
    { [op |-> "DecodeStream", filter |-> "",
       s |-> Stream(EmptyFn, d, << >>, << >>)] : d \in ByteStrings(RawBytes, MaxRawBytes) }

\* LZW inputs: short ones of the bytes that spell the codes 0, 256 (clear),
\* 257 (end) and 258 at a width of 9 bits as first, second or third code, and
\* a long run of code 0
LzwBytes == {0, 32, 64, 128}

LzwData ==
    { Padded(d, 0) : d \in ByteStrings(LzwBytes, MaxLzwShort) \ {<< >>} }
        \cup {Padded(<< >>, MaxLzwBytes)}

\* the bytes themselves are held by the decoder
LzwInputs == { [op |-> "LZW", earlyChange |-> e] : e \in {0, 1} }

PlaneBytes == {0, 7, 255}

PredictorParams ==
    { DecodeParams(p, colors, bpc, columns, 1)
         : p \in 10..14, colors \in {0, 1, 2}, bpc \in {0, 4, 8, 16}, columns \in {0, 1, 2} }

\* an image plane of whole rows
PredictorInputs ==
    { [op |-> "Predictor", data |-> d, params |-> p]
         : d \in ByteStrings(PlaneBytes, MaxPlaneBytes), p \in PredictorParams }

WholeRows(in) == Len(in.data) % rowSize(in.params) = 0

\* the escapes of a literal string: the character after the backslash, or
\* three octal digits, with the byte each stands for
SimpleEscapes ==
    { [esc |-> <<110>>, byte |-> 10], [esc |-> <<114>>, byte |-> 13],
      [esc |-> <<116>>, byte |-> 9], [esc |-> <<98>>, byte |-> 8],
      [esc |-> <<102>>, byte |-> 12], [esc |-> <<40>>, byte |-> 40],
      [esc |-> <<41>>, byte |-> 41], [esc |-> <<92>>, byte |-> 92] }

OctalEscapes ==
    { [esc |-> <<48 + a, 48 + b, 48 + c>>, byte |-> (64 * a + 8 * b + c) % 256]
         : a \in 0..7, b \in 0..7, c \in 0..7 }

\* ( pre \ esc post ), pre and post empty or the letter A
LexerInputs ==
    { [op |-> "Lex", data |-> <<40>> \o pre \o <<92>> \o e.esc \o post \o <<41>>,
       pre |-> pre, post |-> post, esc |-> e.esc, byte |-> e.byte]
         : e \in SimpleEscapes \cup OctalEscapes,
           pre \in {<< >>, <<65>>}, post \in {<< >>, <<65>>} }

(***************************************************************************)
(* Inputs of the font renderer: fonts of one simple glyph, of one or two   *)
(* contours whose end points increase, and fonts of NumGlyphs glyphs,      *)
(* glyph 0 a triangle and the others compound.  A component names a glyph  *)
(* of the font or the ID NumGlyphs, which is out of range.                 *)
(***************************************************************************)
ContourCorners == {<<0, 0>>, <<12, 0>>, <<12, 12>>, <<0, 12>>}

ContourPoint == { [x |-> c[1], y |-> c[2], on |-> on] : c \in ContourCorners, on \in BOOLEAN }

Contours == UNION { [1..n -> ContourPoint] : n \in 1..MaxContourPoints }

\* the triangle (0,0) (12,0) (12,12) under each choice of on-curve flags
Triangles ==
    { << [x |-> 0, y |-> 0, on |-> a], [x |-> 12, y |-> 0, on |-> b],
         [x |-> 12, y |-> 12, on |-> c] >> : a \in BOOLEAN, b \in BOOLEAN, c \in BOOLEAN }

\* the simple glyph of the contours cs
SimpleGlyph(cs) ==
    LET pts == Flatten(cs, 1)
    IN Glyph(Len(cs),
             [c \in 1..Len(cs) |-> Len(Flatten(SubSeq(cs, 1, c), 1)) - 1],
             [i \in 1..Len(pts) |-> pts[i].on],
             [i \in 1..Len(pts) |-> pts[i].x],
             [i \in 1..Len(pts) |-> pts[i].y], << >>)

EmptyGlyph == Glyph(0, << >>, << >>, << >>, << >>, << >>)

SimpleGlyphs ==
    {EmptyGlyph} \cup { SimpleGlyph(<<c>>) : c \in Contours }
        \cup { SimpleGlyph(<<c, d>>) : c \in Triangles, d \in Triangles }

ComponentLists ==
    UNION { [1..n -> { GlyphComponent(g, 6, 0) : g \in 0..NumGlyphs }]
               : n \in 1..MaxComponents }

CompoundGlyph(components) == Glyph(-1, << >>, << >>, << >>, << >>, components)

TriangleGlyph ==
    SimpleGlyph(<< << [x |-> 0, y |-> 0, on |-> TRUE], [x |-> 12, y |-> 0, on |-> TRUE],
                      [x |-> 12, y |-> 12, on |-> TRUE] >> >>)

\* glyph 1 has any list of components, the glyphs after it one component
CompoundFonts ==
    { <<TriangleGlyph, CompoundGlyph(c)>> \o f
         : c \in ComponentLists,
           f \in [1..(NumGlyphs - 2) ->
                    { CompoundGlyph(<<GlyphComponent(g, 6, 0)>>) : g \in 0..NumGlyphs }] }

GlyphInputs ==
    { [op |-> "Glyph", font |-> <<g>>, glyphID |-> 0] : g \in SimpleGlyphs }
        \cup { [op |-> "Glyph", font |-> f, glyphID |-> g]
                   : f \in CompoundFonts, g \in 0..(NumGlyphs - 1) }

(***************************************************************************)
(* Inputs of the render size: a page with or without a MediaBox, and the   *)
(* render options                                                          *)
(***************************************************************************)
MediaBoxes ==
    {<< >>, <<0, 0, 612, 792>>, <<0, 0, 595, 842>>, <<10, 20, 110, 70>>, <<0, 0, 1, 1>>}

RenderInputs ==
    { [op |-> "Render", mediaBox |-> b, opts |-> RenderOptions(dpi, scale)]
         : b \in MediaBoxes, dpi \in {36, 72, 100, 150, 300}, scale \in {1, 2, 3} }

(***************************************************************************)
(* Source texts of strings and names: literal strings and names of up to   *)
(* MaxPieces pieces, hex strings of up to MaxHexChars characters           *)
(***************************************************************************)
\* a letter, the escapes, octal escapes, a backslash before an end of line,
\* and a pair of balanced parentheses
LiteralPieces ==
    { <<65>>, <<40, 65, 41>>, <<92, 120>>, <<92, 49, 48, 49>>, <<92, 55>>,
      <<92, 52, 55, 55>>, <<92, 10>>, <<92, 13>>, <<92, 13, 10>> }
        \cup { <<92, c>> : c \in {110, 114, 116, 98, 102, 40, 41, 92} }

NamePieces == { <<65>>, <<35, 52, 49>>, <<35, 97, 70>>, <<35, 52>>, <<35>>, <<35, 120, 49>> }

HexChars == {52, 49, 97, 70, 32, 120}

StringSources ==
    { <<40>> \o Flatten(ps, 1) \o <<41>>
         : ps \in UNION { [1..n -> LiteralPieces] : n \in 0..MaxPieces } }
        \cup { <<60>> \o h \o <<62>> : h \in ByteStrings(HexChars, MaxHexChars) }
        \cup { <<47>> \o Flatten(ps, 1)
                   : ps \in UNION { [1..n -> NamePieces] : n \in 1..MaxPieces } }

StringInputs == { [op |-> "Token", src |-> s] : s \in StringSources }

(***************************************************************************)
(* State                                                                   *)
(*   data     the input buffer                                             *)
(*   mode     "closed", then "reader" (cos.NewReader returned a Reader),   *)
(*            "doc" (api.OpenBytes returned a Document), "failed" (an      *)
(*            error was returned), or "panic" / "overflow" (the process    *)
(*            died)                                                        *)
(*   xref, cache, objStm   the Reader's fields                             *)
(*   pageCount             the Document's cached page count                *)
(*   chain    the xref offsets handed to ParseXref during open, in order   *)
(*   answers  every outcome GetObject and Resolve have returned            *)
(*   ret      the outcome of the last page call                            *)
(*   states, heap, path    the Interpreter's stack (addresses), the states *)
(*            they point to, and its current path                          *)
(*   nops     the number of operators executed                             *)
(*   last     the operator executed last, with the stack depth and the     *)
(*            current state before it, and want, the state that was        *)
(*            current before the q it matches when it is a matched Q       *)
(*   saved    the states that were current before each q not yet matched   *)
(*   cb, calls   the callbacks that are set, and the invocations the       *)
(*            operator executed last has made                              *)
(*   content, ops, pc   a content stream, the operators parsed from it and *)
(*            the index of the operator Execute runs next (0: not parsed)  *)
(*   canvas   the pixels of the Renderer's canvas (Nil: no Renderer)       *)
(*   input, output   the arguments of a call of a filter, a predictor or   *)
(*            the lexer, and what the call returned (Nil: no such call)    *)
(***************************************************************************)
VARIABLES data, mode, xref, cache, objStm, pageCount, chain, answers, ret,
          states, heap, path, nops, last, saved, cb, calls,
          content, ops, pc, canvas, input, output, app

readerVars == <<data, mode, xref, cache, objStm, pageCount, chain, answers, ret>>

gfxVars == <<states, heap, path, nops, last, saved, cb, calls, content, ops, pc, canvas>>

codecVars == <<input, output, app>>

vars == <<readerVars, gfxVars, codecVars>>

NoRetFields == [op |-> "none", i |-> 0, st |-> "ok", obj |-> Nil, img |-> FALSE]

Reader == [data |-> data, xref |-> xref, cache |-> cache, objStm |-> objStm]

InitReader ==
    /\ mode = "closed"
    /\ xref = NoTable
    /\ cache = EmptyFn
    /\ objStm = EmptyFn
    /\ pageCount = 0
    /\ chain = << >>
    /\ answers = {}
    /\ ret = NoRetFields

NoOperator == Operator("", << >>)

InitApp == app = Nil

InitCodec == input = Nil /\ output = Nil /\ InitApp

InitInterpreter ==
    /\ states = NewInterpreter.states
    /\ heap = NewInterpreter.heap
    /\ path = NewInterpreter.path
    /\ nops = 0
    /\ last = [op |-> NoOperator, depth |-> 1, state |-> NewState, want |-> Nil]
    /\ saved = << >>
    /\ cb = NewInterpreter.cb
    /\ calls = NewInterpreter.calls
    /\ content = << >>
    /\ ops = << >>
    /\ pc = 0
    /\ canvas = Nil

Interp == [states |-> states, heap |-> heap, path |-> path, cb |-> cb, calls |-> calls]

\* Interpreter.State
CurrentState == LET C == Current(Interp) IN C.heap[Top(C)]

\* the mode an outcome leaves the process in
After(st, m) == IF st \in {"panic", "overflow"} THEN st ELSE m

NewReaderCall ==
    /\ mode = "closed"
    /\ \E r \in {NewReader(data)} :
          /\ mode' = IF r.st = "ok" THEN "reader"
                     ELSE IF r.st = "err" THEN "failed" ELSE r.st
          /\ xref' = r.xref
          /\ chain' = r.chain
    /\ UNCHANGED <<data, cache, objStm, pageCount, answers, ret, gfxVars, codecVars>>

\* the caches and the mode a lookup leaves, and the answer it gave
LookupCall(op, n, r) ==
    /\ cache' = r.cache
    /\ objStm' = r.objStm
    /\ answers' = answers \cup {[op |-> op, n |-> n, st |-> r.st, obj |-> r.obj]}
    /\ mode' = After(r.st, mode)
    /\ UNCHANGED <<data, xref, pageCount, chain, ret, gfxVars, codecVars>>

GetObjectCall ==
    /\ mode \in {"reader", "doc"}
    /\ \E n \in ObjNums :
          \E r \in {GetObject(Reader, n, {})} : LookupCall("GetObject", n, r)

ResolveCall ==
    /\ mode \in {"reader", "doc"}
    /\ \E n \in ObjNums, g \in {0, 1} :
          \E r \in {Resolve(Reader, Reference(n, g))} : LookupCall("Resolve", n, r)

OpenBytesCall ==
    /\ mode = "closed"
    /\ \E r \in {OpenBytes(data)} :
          /\ mode' = IF r.st = "ok" THEN "doc"
                     ELSE IF r.st = "err" THEN "failed" ELSE r.st
          /\ xref' = r.xref
          /\ chain' = r.chain
          /\ cache' = r.cache
          /\ objStm' = r.objStm
          /\ pageCount' = r.pageCount
    /\ UNCHANGED <<data, answers, ret, gfxVars, codecVars>>

\* the page indices tried: from one below zero to one past the reported count
PageIndices == -1..(pageCount + 1)

PageCall(op, r, i) ==
    /\ cache' = r.cache
    /\ objStm' = r.objStm
    /\ ret' = [op |-> op, i |-> i, st |-> r.st, obj |-> r.obj, img |-> r.img]
    /\ mode' = After(r.st, mode)
    /\ UNCHANGED <<data, xref, pageCount, chain, answers, gfxVars, codecVars>>

GetPageCall ==
    /\ mode = "doc"
    /\ \E i \in PageIndices :
          \E r \in {ApiRet(GetPage(Reader, i), FALSE)} : PageCall("GetPage", r, i)

DocPageCall ==
    /\ mode = "doc"
    /\ \E i \in PageIndices :
          \E r \in {Page(Reader, pageCount, i)} : PageCall("Page", r, i)

RenderCall ==
    /\ mode = "doc"
    /\ \E i \in PageIndices :
          \E r \in {RenderWithOptions(Reader, pageCount, i)} : PageCall("Render", r, i)

\* the interpreter after J, the outcome of executeOp for op
Executed(op, J) ==
    /\ states' = J.states
    /\ heap' = J.heap
    /\ path' = J.path
    /\ calls' = J.calls
    /\ last' = [op |-> op, depth |-> Len(states), state |-> CurrentState,
                want |-> IF op.Name = "Q" /\ Len(saved) > 0
                         THEN saved[Len(saved)] ELSE Nil]
    /\ saved' = IF op.Name = "q" THEN Append(saved, CurrentState)
                ELSE IF op.Name = "Q" /\ Len(saved) > 0
                THEN SubSeq(saved, 1, Len(saved) - 1)
                ELSE saved
    /\ nops' = nops + 1

\* Interpreter.Execute: one turn of its loop
Execute ==
    /\ nops < MaxOps
    /\ \E i \in 1..Len(OpInputs) :
          \E op \in {OpInputs[i]}, J \in {executeOp(Interp, OpInputs[i])} :
             Executed(op, J)
    /\ UNCHANGED <<readerVars, codecVars, cb, content, ops, pc, canvas>>

\* ParseContentStream on the content stream
ParseCall ==
    /\ pc = 0
    /\ ops' = ParseContentStream(content)
    /\ pc' = 1
    /\ UNCHANGED <<readerVars, codecVars, states, heap, path, nops, last, saved, cb, calls,
                   content, canvas>>

\* Interpreter.Execute on the parsed operators: one turn of its loop
ExecuteNext ==
    /\ pc >= 1
    /\ pc <= Len(ops)
    /\ \E op \in {ops[pc]}, J \in {executeOp(Interp, ops[pc])} : Executed(op, J)
    /\ pc' = pc + 1
    /\ UNCHANGED <<readerVars, codecVars, cb, content, ops, canvas>>

\* the loop of Renderer.RenderPage's interp.Execute(ops): one turn, with the
\* Renderer's callbacks drawing on the canvas
RenderNext ==
    /\ pc >= 1
    /\ pc <= Len(ops)
    /\ \E op \in {ops[pc]}, J \in {executeOp(Interp, ops[pc])} :
          /\ Executed(op, J)
          /\ canvas' = RenderCalls(canvas, J.calls, 1)
    /\ pc' = pc + 1
    /\ UNCHANGED <<readerVars, codecVars, cb, content, ops>>

(***************************************************************************)
(* Specifications: one per family of input documents, and one for the      *)
(* interpreter                                                             *)
(***************************************************************************)
InitXref == (InitChainDoc(data) \/ InitStartDoc(data)) /\ InitReader /\ InitInterpreter /\ InitCodec

NextXref == NewReaderCall \/ OpenBytesCall

SpecXref == InitXref /\ [][NextXref]_vars

InitObj == InitObjDoc(data) /\ InitReader /\ InitInterpreter /\ InitCodec

NextObj == NewReaderCall \/ GetObjectCall \/ ResolveCall

SpecObj == InitObj /\ [][NextObj]_vars

InitPages == InitPageDoc(data) /\ InitReader /\ InitInterpreter /\ InitCodec

NextPages == OpenBytesCall \/ GetPageCall \/ DocPageCall \/ RenderCall

SpecPages == InitPages /\ [][NextPages]_vars

InitPageCycle == InitCyclicPageDoc(data) /\ InitReader /\ InitInterpreter /\ InitCodec

NextPageCycle == OpenBytesCall \/ GetPageCall

SpecPageCycle == InitPageCycle /\ [][NextPageCycle]_vars

EmptyBuffer == [len |-> 0, sx |-> NoStartXref, at |-> EmptyFn]

InitGfx == data = EmptyBuffer /\ InitReader /\ InitInterpreter /\ InitCodec

NextGfx == Execute

SpecGfx == InitGfx /\ [][NextGfx]_vars

InitContentStream(chunks) ==
    \E n \in 0..MaxChunks :
       \E picks \in [1..n -> 1..Len(chunks)] : content = Lines(chunks, picks, 1)

InitContent ==
    /\ data = EmptyBuffer
    /\ InitReader
    /\ states = NewInterpreter.states
    /\ heap = NewInterpreter.heap
    /\ path = NewInterpreter.path
    /\ nops = 0
    /\ last = [op |-> NoOperator, depth |-> 1, state |-> NewState, want |-> Nil]
    /\ saved = << >>
    /\ cb \in {NewInterpreter.cb, AllCallbacks}
    /\ calls = NewInterpreter.calls
    /\ InitContentStream(ContentChunks)
    /\ ops = << >>
    /\ pc = 0
    /\ canvas = Nil
    /\ InitCodec

InitCanvas ==
    /\ data = EmptyBuffer
    /\ InitReader
    /\ states = NewInterpreter.states
    /\ heap = NewInterpreter.heap
    /\ path = NewInterpreter.path
    /\ nops = 0
    /\ last = [op |-> NoOperator, depth |-> 1, state |-> NewState, want |-> Nil]
    /\ saved = << >>
    /\ cb = RendererCallbacks
    /\ calls = NewInterpreter.calls
    /\ \E n \in 0..MaxCanvasChunks :
          \E picks \in [1..n -> 1..Len(CanvasChunks)] :
             content = Lines(CanvasChunks, picks, 1)
    /\ ops = << >>
    /\ pc = 0
    /\ canvas = NewCanvas(PageSize, PageSize)
    /\ InitCodec

NextCanvas == ParseCall \/ RenderNext

SpecCanvas == InitCanvas /\ [][NextCanvas]_vars

InitPaint ==
    /\ InitReader /\ data = EmptyBuffer
    /\ InitCodec
    /\ states = NewInterpreter.states
    /\ heap = NewInterpreter.heap
    /\ path = NewInterpreter.path
    /\ nops = 0
    /\ last = [op |-> NoOperator, depth |-> 1, state |-> NewState, want |-> Nil]
    /\ saved = << >>
    /\ cb = AllCallbacks
    /\ calls = NewInterpreter.calls
    /\ InitContentStream(PaintChunks)
    /\ ops = << >>
    /\ pc = 0
    /\ canvas = Nil

NextContent == ParseCall \/ ExecuteNext

SpecContent == InitContent /\ [][NextContent]_vars

SpecPaint == InitPaint /\ [][NextContent]_vars

\* stream.Decode
DecodeCall ==
    /\ input # Nil /\ input.op = "Decode" /\ output = Nil
    /\ output' = Decode(input.data, input.filter, input.params)
    /\ UNCHANGED <<readerVars, gfxVars, input, app>>

\* Reader.DecodeStream
DecodeStreamCall ==
    /\ input # Nil /\ input.op = "DecodeStream" /\ output = Nil
    /\ output' = DecodeStream(input.s)
    /\ UNCHANGED <<readerVars, gfxVars, input, app>>

InitFilter ==
    /\ data = EmptyBuffer /\ InitReader /\ InitInterpreter /\ InitApp
    /\ input \in DecodeInputs \cup StreamInputs
    /\ output = Nil

NextFilter == DecodeCall \/ DecodeStreamCall

SpecFilter == InitFilter /\ [][NextFilter]_vars

\* one turn of the loop of lzwDecoder.decode; output is the decoder
LzwStepCall ==
    /\ input # Nil /\ input.op = "LZW" /\ output.st = "run"
    /\ output' = lzwStep(output)
    /\ UNCHANGED <<readerVars, gfxVars, input, app>>

\* DecodeLZW has built the decoder
InitLzw ==
    /\ data = EmptyBuffer /\ InitReader /\ InitInterpreter /\ InitApp
    /\ input \in LzwInputs
    /\ \E d \in LzwData : output = lzwStart(d, input.earlyChange)

NextLzw == LzwStepCall

SpecLzw == InitLzw /\ [][NextLzw]_vars

\* stream.EncodePNGPredictor; output is [encoded, decoded]
EncodeCall ==
    /\ input # Nil /\ input.op = "Predictor" /\ output = Nil
    /\ output' = [encoded |-> EncodePNGPredictor(input.data, input.params), decoded |-> Nil]
    /\ UNCHANGED <<readerVars, gfxVars, input, app>>

\* stream.ApplyPredictor on what the encoder returned
ApplyCall ==
    /\ input # Nil /\ input.op = "Predictor" /\ output # Nil /\ output.decoded = Nil
    /\ output' = [output EXCEPT !.decoded = ApplyPredictor(output.encoded.data, input.params)]
    /\ UNCHANGED <<readerVars, gfxVars, input, app>>

InitPredictor ==
    /\ data = EmptyBuffer /\ InitReader /\ InitInterpreter /\ InitApp
    /\ input \in { in \in PredictorInputs : WholeRows(in) }
    /\ output = Nil

NextPredictor == EncodeCall \/ ApplyCall

SpecPredictor == InitPredictor /\ [][NextPredictor]_vars

\* Lexer.scanLiteralString at the opening parenthesis
ScanCall ==
    /\ input # Nil /\ input.op = "Lex" /\ output = Nil
    /\ output' = scanLiteralString(input.data)
    /\ UNCHANGED <<readerVars, gfxVars, input, app>>

InitLexer ==
    /\ data = EmptyBuffer /\ InitReader /\ InitInterpreter /\ InitApp
    /\ input \in LexerInputs
    /\ output = Nil

NextLexer == ScanCall

SpecLexer == InitLexer /\ [][NextLexer]_vars

\* Renderer.GlyphToPath of a fresh Renderer
GlyphToPathCall ==
    /\ input # Nil /\ input.op = "Glyph" /\ output = Nil
    /\ output' = GlyphToPath(input.font, input.glyphID, {})
    /\ UNCHANGED <<readerVars, gfxVars, input, app>>

InitGlyph ==
    /\ data = EmptyBuffer /\ InitReader /\ InitInterpreter /\ InitApp
    /\ input \in GlyphInputs
    /\ output = Nil

NextGlyph == GlyphToPathCall

SpecGlyph == InitGlyph /\ [][NextGlyph]_vars

\* Document.RenderWithOptions: the size of the image returned
RenderSizeCall ==
    /\ input # Nil /\ input.op = "Render" /\ output = Nil
    /\ output' = renderWithOptionsSize(input.mediaBox, input.opts)
    /\ UNCHANGED <<readerVars, gfxVars, input, app>>

InitRender ==
    /\ data = EmptyBuffer /\ InitReader /\ InitInterpreter /\ InitApp
    /\ input \in RenderInputs
    /\ output = Nil

NextRender == RenderSizeCall

SpecRender == InitRender /\ [][NextRender]_vars

\* the COS lexer reads the source text
NextTokenCall ==
    /\ input # Nil /\ input.op = "Token" /\ ~output.lexed
    /\ output' = [output EXCEPT !.lexed = TRUE, !.token = NextToken(input.src)]
    /\ UNCHANGED <<readerVars, gfxVars, input, app>>

\* the content-stream parser reads the source text
ContentOperandsCall ==
    /\ input # Nil /\ input.op = "Token" /\ ~output.parsed
    /\ output' = [output EXCEPT !.parsed = TRUE, !.operands = contentOperands(input.src)]
    /\ UNCHANGED <<readerVars, gfxVars, input, app>>

InitStrings ==
    /\ data = EmptyBuffer /\ InitReader /\ InitInterpreter /\ InitApp
    /\ input \in StringInputs
    /\ output = [lexed |-> FALSE, token |-> [Type |-> "", Value |-> << >>],
                 parsed |-> FALSE, operands |-> << >>]

NextStrings == NextTokenCall \/ ContentOperandsCall

SpecStrings == InitStrings /\ [][NextStrings]_vars

\* loadFile: api.Open returns a document, or an error
OpenCall(t) ==
    /\ app.th[t].pc = "open" /\ app.opened < MaxDocs
    /\ \/ \E n \in PageCounts :
             app' = [app EXCEPT !.opened = @ + 1,
                                !.th[t] = [Thread("assign") EXCEPT
                                              !.doc = Document(app.opened + 1, n)]]
       \/ app' = [app EXCEPT !.th[t] = Thread(Rest(t))]
    /\ UNCHANGED <<readerVars, gfxVars, input, output>>

\* loadFile: a.document = doc
AssignDocument(t) ==
    /\ app.th[t].pc = "assign"
    /\ app' = [app EXCEPT !.document = app.th[t].doc, !.th[t] = Thread("reset")]
    /\ UNCHANGED <<readerVars, gfxVars, input, output>>

\* loadFile: a.currentPage = 0
ResetPage(t) ==
    /\ app.th[t].pc = "reset"
    /\ app' = [app EXCEPT !.currentPage = 0, !.th[t] = Thread("render")]
    /\ UNCHANGED <<readerVars, gfxVars, input, output>>

\* renderCurrentPage: RenderWithOptions(a.currentPage, opts) of a.document
\* is entered
RenderStart(t) ==
    /\ app.th[t].pc = "render"
    /\ app' = IF app.document = Nil THEN [app EXCEPT !.th[t] = Thread(Rest(t))]
              ELSE [app EXCEPT !.th[t] = [Thread("rendering") EXCEPT
                                             !.doc = app.document,
                                             !.page = app.currentPage]]
    /\ UNCHANGED <<readerVars, gfxVars, input, output>>

\* RenderWithOptions returns
RenderEnd(t) ==
    /\ app.th[t].pc = "rendering"
    /\ app' = [app EXCEPT !.th[t] = Thread(Rest(t))]
    /\ UNCHANGED <<readerVars, gfxVars, input, output>>

\* the steps of loadFile and renderCurrentPage, in either thread
LoadStep ==
    \E t \in Threads :
        OpenCall(t) \/ AssignDocument(t) \/ ResetPage(t) \/ RenderStart(t) \/ RenderEnd(t)

\* prevPage: the guard
PrevPage ==
    /\ app.th["ui"].pc = "idle"
    /\ ~(app.document = Nil \/ app.currentPage <= 0)
    /\ app' = [app EXCEPT !.th["ui"] = Thread("dec")]
    /\ UNCHANGED <<readerVars, gfxVars, input, output>>

\* prevPage: a.currentPage--
PrevPageDec ==
    /\ app.th["ui"].pc = "dec"
    /\ app' = [app EXCEPT !.currentPage = @ - 1, !.th["ui"] = Thread("render")]
    /\ UNCHANGED <<readerVars, gfxVars, input, output>>

\* nextPage: the guard
NextPage ==
    /\ app.th["ui"].pc = "idle"
    /\ ~(app.document = Nil \/ app.currentPage >= app.document.pageCount - 1)
    /\ app' = [app EXCEPT !.th["ui"] = Thread("inc")]
    /\ UNCHANGED <<readerVars, gfxVars, input, output>>

\* nextPage: a.currentPage++
NextPageInc ==
    /\ app.th["ui"].pc = "inc"
    /\ app' = [app EXCEPT !.currentPage = @ + 1, !.th["ui"] = Thread("render")]
    /\ UNCHANGED <<readerVars, gfxVars, input, output>>

\* goToPage(page) up to its test page != a.currentPage
goToPage(page) ==
    /\ app.document # Nil
    /\ clampPage(page, app.document.pageCount) # app.currentPage
    /\ app' = [app EXCEPT !.th["ui"] =
                   [Thread("set") EXCEPT !.arg = clampPage(page, app.document.pageCount)]]

\* handleKey: Home
KeyHome ==
    /\ app.th["ui"].pc = "idle"
    /\ goToPage(0)
    /\ UNCHANGED <<readerVars, gfxVars, input, output>>

\* handleKey: End
KeyEnd ==
    /\ app.th["ui"].pc = "idle"
    /\ app.document # Nil
    /\ goToPage(app.document.pageCount - 1)
    /\ UNCHANGED <<readerVars, gfxVars, input, output>>

\* goToPage: a.currentPage = page
GoToPageSet ==
    /\ app.th["ui"].pc = "set"
    /\ app' = [app EXCEPT !.currentPage = app.th["ui"].arg, !.th["ui"] = Thread("render")]
    /\ UNCHANGED <<readerVars, gfxVars, input, output>>

ZoomIn ==
    /\ app.th["ui"].pc = "idle"
    /\ app.dpi < 400
    /\ app' = [app EXCEPT !.dpi = @ + 25, !.th["ui"] = Thread("render")]
    /\ UNCHANGED <<readerVars, gfxVars, input, output>>

ZoomOut ==
    /\ app.th["ui"].pc = "idle"
    /\ app.dpi > 50
    /\ app' = [app EXCEPT !.dpi = @ - 25, !.th["ui"] = Thread("render")]
    /\ UNCHANGED <<readerVars, gfxVars, input, output>>

\* openFile: a file was chosen in the dialog
OpenFile ==
    /\ app.th["ui"].pc = "idle" /\ app.opened < MaxDocs
    /\ app' = [app EXCEPT !.th["ui"] = Thread("open")]
    /\ UNCHANGED <<readerVars, gfxVars, input, output>>

InitGui ==
    /\ data = EmptyBuffer /\ InitReader /\ InitInterpreter
    /\ input = Nil /\ output = Nil
    /\ app = NewApp

NextGui ==
    \/ LoadStep
    \/ PrevPage \/ PrevPageDec \/ NextPage \/ NextPageInc
    \/ KeyHome \/ KeyEnd \/ GoToPageSet
    \/ ZoomIn \/ ZoomOut \/ OpenFile

SpecGui == InitGui /\ [][NextGui]_vars

\* the viewer once the goroutine of RunWithFile has loaded a document and
\* returned, no event handled yet
InitGuiLoaded ==
    /\ data = EmptyBuffer /\ InitReader /\ InitInterpreter
    /\ input = Nil /\ output = Nil
    /\ \E n \in PageCounts :
          app = [NewApp EXCEPT !.document = Document(1, n), !.opened = 1,
                               !.th["loader"] = Thread("done")]

SpecGuiLoaded == InitGuiLoaded /\ [][NextGui]_vars

(***************************************************************************)
(* Properties of the object lookup (SpecObj)                               *)
(***************************************************************************)
InUse(n) == n \in DOMAIN xref.Entries /\ xref.Entries[n].InUse

Free(n) == n \in DOMAIN xref.Entries /\ ~xref.Entries[n].InUse

\* C1: at every point of every sequence of GetObject / Resolve calls on one
\* reader, Resolve of a reference to an in-use object number n returns what
\* GetObject(n) returns (same object, same error or not), the calls made so
\* far agree with one another on it, and Resolve of a reference to a free
\* object number returns the null object with no error.
C1_ResolveIsGetObject ==
    /\ mode = "reader" =>
          \A n \in ObjNums, g \in {0, 1} :
              LET r == Resolve(Reader, Reference(n, g))
                  got == GetObject(Reader, n, {})
              IN /\ InUse(n) => r.st = got.st /\ r.obj = got.obj
                 /\ Free(n) => r.st = "ok" /\ r.obj = Null
    /\ \A a \in answers :
          /\ (a.op = "Resolve" /\ Free(a.n)) => (a.st = "ok" /\ a.obj = Null)
          /\ InUse(a.n) =>
                \A b \in answers : b.n = a.n => (b.st = a.st /\ b.obj = a.obj)

\* C1 witness: GetObject and Resolve have both answered for one in-use stream
\* object, and Resolve has answered for a free object.
C1_Witness ==
    /\ \E a, b \in answers :
          /\ a.op = "GetObject" /\ b.op = "Resolve" /\ a.n = b.n /\ InUse(a.n)
          /\ a.st = "ok" /\ a.obj.k = "stream" /\ b.obj = a.obj
    /\ \E c \in answers : c.op = "Resolve" /\ Free(c.n) /\ c.obj = Null

\* the stream objects of the buffer whose /Length is a reference to an in-use
\* integer object: [n, L, tail]
RefLengthStreams ==
    { [n |-> n, L |-> ItemAt(data, xref.Entries[m].Offset).body.v,
       tail |-> ItemAt(data, xref.Entries[n].Offset).body.tail] :
        <<n, m>> \in { nm \in ObjNums \X ObjNums :
            LET e == xref.Entries
                it == ItemAt(data, e[nm[1]].Offset)
                lit == ItemAt(data, e[nm[2]].Offset)
            IN /\ InUse(nm[1]) /\ e[nm[1]].ObjectStreamNum = 0
               /\ it.t = "obj" /\ it.body.k = "rawstream"
               /\ Get(it.body.d, "Length") = Reference(nm[2], 0)
               /\ InUse(nm[2]) /\ e[nm[2]].ObjectStreamNum = 0
               /\ lit.t = "obj" /\ lit.body.k = "int" } }

\* C4: GetObject of a stream object whose /Length is a reference to an in-use
\* integer object of value L returns, with no error, a stream whose payload is
\* the L bytes after `stream` and whose dictionary Length is the integer L.
C4_IndirectLengthStream ==
    \A a \in answers : \A s \in RefLengthStreams :
        (a.op = "GetObject" /\ a.n = s.n) =>
            /\ a.st = "ok"
            /\ a.obj.k = "stream"
            /\ a.obj.Data = SubSeq(s.tail, 1, s.L)
            /\ Get(a.obj.d, "Length") = Integer(s.L)

(***************************************************************************)
(* Properties of open (SpecXref)                                           *)
(***************************************************************************)
\* the entries of the sections open has parsed, in the order it parsed them
ChainSections == [i \in 1..Len(chain) |-> ParseXref(data, chain[i]).table.Entries]

Mentions(n) == { i \in 1..Len(chain) : n \in DOMAIN ChainSections[i] }

Freshest(n) == CHOOSE i \in Mentions(n) : \A j \in Mentions(n) : i <= j

\* C2: once open has followed the Prev chain S0 (at startxref), S1, ..., Sk,
\* the final entry of every object number is the entry of the first section
\* of the chain that mentions it (free or in use, whatever its generation),
\* and a number no section mentions has no entry.
C2_FreshestSectionWins ==
    mode = "reader" =>
        \A n \in XrefObjNums :
            IF Mentions(n) = {} THEN n \notin DOMAIN xref.Entries
            ELSE /\ n \in DOMAIN xref.Entries
                 /\ xref.Entries[n] = ChainSections[Freshest(n)][n]

\* C2 witness: a chain of two sections or more, the newest marking an object
\* free that an older section has in use, and an object only an older section
\* mentions.
C2_Witness ==
    /\ mode = "reader"
    /\ Len(chain) >= 2
    /\ \E n \in XrefObjNums :
          /\ 1 \in Mentions(n) /\ ~ChainSections[1][n].InUse
          /\ \E i \in Mentions(n) : i > 1 /\ ChainSections[i][n].InUse
          /\ xref.Entries[n] = ChainSections[1][n]
    /\ \E n \in XrefObjNums :
          /\ Mentions(n) # {} /\ 1 \notin Mentions(n)
          /\ xref.Entries[n] = ChainSections[Freshest(n)][n]

\* following /Prev from the section at offset comes back to an offset already
\* visited
RECURSIVE PrevRevisits(_, _, _)
PrevRevisits(d, offset, visited) ==
    LET px == ParseXref(d, offset)
        prev == GetInt(px.table.Trailer, "Prev")
    IN /\ px.st = "ok"
       /\ prev.ok
       /\ \/ prev.v \in visited \cup {offset}
          \/ PrevRevisits(d, prev.v, visited \cup {offset})

PrevCycle == data.sx # NoStartXref /\ PrevRevisits(data, data.sx, {})

\* C3: open of a document whose Prev chain comes back to an offset already
\* visited returns (a reader, a document or an error).
C3_PrevCycleTerminates ==
    (mode # "closed" /\ PrevCycle) => mode \in {"reader", "doc", "failed"}

\* C5: open of a document whose Prev chain has no cycle never crashes, and
\* when startxref lies past the end of the buffer, or nothing parses as an
\* xref table or stream there, it returns an error and no document.
C5_OpenNeverCrashes ==
    (mode # "closed" /\ ~PrevCycle) =>
        /\ mode \in {"reader", "doc", "failed"}
        /\ (data.sx > data.len \/ ItemAt(data, data.sx) = Junk) => mode = "failed"

(***************************************************************************)
(* Properties of the page tree (SpecPages)                                 *)
(***************************************************************************)
\* the object the buffer holds under number o (object o is at offset o)
BodyOf(o) == ItemAt(data, o).body

\* the leaf pages beneath a node, depth first and left to right
RECURSIVE LeavesUnder(_)
RECURSIVE LeavesOfKids(_, _)
LeavesUnder(o) ==
    IF GetName(BodyOf(o).d, "Type").s = "Page" THEN <<BodyOf(o)>>
    ELSE LeavesOfKids(GetArray(BodyOf(o).d, "Kids").items, 1)

LeavesOfKids(kids, j) ==
    IF j > Len(kids) THEN << >>
    ELSE LeavesUnder(kids[j].num) \o LeavesOfKids(kids, j + 1)

PagesNodes == { o \in DOMAIN data.at :
                  /\ ItemAt(data, o).t = "obj"
                  /\ BodyOf(o).k = "dict"
                  /\ GetName(BodyOf(o).d, "Type").s = "Pages" }

WellFormedTree ==
    \A o \in PagesNodes : GetInt(BodyOf(o).d, "Count").v = Len(LeavesUnder(o))

\* C6: on a well-formed page tree, GetPage(i) for 0 <= i < page count returns
\* the i-th leaf page of the depth-first, left-to-right order of the Kids
\* arrays.
C6_GetPageDepthFirst ==
    (/\ mode = "doc"
     /\ WellFormedTree
     /\ ret.op = "GetPage"
     /\ 0 <= ret.i /\ ret.i < pageCount) =>
        /\ ret.st = "ok"
        /\ ret.obj = LeavesUnder(RootNode)[ret.i + 1]

\* C6 witness: GetPage has returned a leaf of the root that comes after the
\* leaves of node 3, two or more: node 3 was skipped by its Count.
C6_Witness ==
    /\ mode = "doc" /\ WellFormedTree /\ ret.op = "GetPage" /\ ret.st = "ok"
    /\ ret.i >= 2
    /\ ret.obj = LeavesUnder(RootNode)[ret.i + 1]
    /\ \E j \in 1..MaxKids : ret.obj = LeafDict(LeafId(RootNode, j))
    /\ \E j \in 1..MaxKids : LeafDict(LeafId(3, j)) = LeavesUnder(RootNode)[ret.i]

\* C7: for a page index outside [0, page count), Page and RenderWithOptions
\* return an error, and neither a Page nor an image.
C7_OutOfRangeIsAnError ==
    (/\ ret.op \in {"Page", "Render"}
     /\ (ret.i < 0 \/ ret.i >= pageCount)) =>
        /\ ret.st = "err"
        /\ ret.obj = Nil
        /\ ~ret.img

(***************************************************************************)
(* Properties of the graphics state stack (SpecGfx)                        *)
(***************************************************************************)
\* C8: after a Q that matches an earlier q, at any depth of nesting, the
\* current graphics state (every field of it) is the state that was current
\* immediately before that q, whatever operators were executed in between.
C8_QRestoresState ==
    (last.op.Name = "Q" /\ last.want # Nil) => CurrentState = last.want

\* C8 witness: a nested q ... Q (an outer q is still open) between which the
\* CTM, the dash pattern, the clip path, the fill colour or the text state
\* were changed, and the state before the q is back.
C8_Witness ==
    /\ last.op.Name = "Q" /\ last.want # Nil
    /\ Len(saved) >= 1
    /\ last.state.CTM # last.want.CTM
    /\ \/ last.state.DashPattern # last.want.DashPattern
       \/ last.state.ClipPath # last.want.ClipPath
       \/ last.state.FillColor # last.want.FillColor
       \/ last.state.TextState # last.want.TextState
    /\ CurrentState = last.want

\* C9: the stack always holds one state or more, and a Q executed when only
\* the base state is on it leaves the depth and the base state as they were.
C9_QClampedAtBase ==
    /\ Len(states) >= 1
    /\ (last.op.Name = "Q" /\ last.depth = 1) =>
          (Len(states) = 1 /\ CurrentState = last.state)

\* C9 witness: a Q with no q left to match, executed on a base state that is
\* no longer the initial one, after a q ... Q pair.
C9_Witness ==
    /\ last.op.Name = "Q" /\ last.depth = 1 /\ last.want = Nil
    /\ nops >= 4
    /\ Len(states) = 1
    /\ CurrentState = last.state
    /\ CurrentState # NewState

\* C10: cm with matrix M sets the CTM to M x CTM.
C10_CmLeftMultiplies ==
    (last.op.Name = "cm" /\ Len(last.op.Operands) >= 6) =>
        CurrentState.CTM = Multiply(OperandMatrix(last.op.Operands), last.state.CTM)

\* the path a painting operator hands on: s, b and b* close it first
PaintedPath(name, p) == IF name \in {"s", "b", "b*"} THEN Close(p) ELSE p

\* C11: every path handed to OnFill, OnStroke and OnClip is the current path
\* with each point transformed by the CTM in force when the operator executes.
C11_CallbackPathsTransformed ==
    [][(pc >= 1 /\ pc' = pc + 1) =>
          \A j \in 1..Len(calls') :
             calls'[j].cb \in {"OnFill", "OnStroke", "OnClip"} =>
                calls'[j].path =
                    PathTransform(PaintedPath(ops[pc].Name, path), CurrentState.CTM)]_vars

\* C11 witness: W has called OnClip with a path under a CTM that is not the
\* identity.
C11_Witness ==
    /\ pc >= 2 /\ ops[pc - 1].Name = "W"
    /\ Len(calls) = 1 /\ calls[1].cb = "OnClip"
    /\ ~IsEmpty(calls[1].path)
    /\ CurrentState.CTM # Identity

\* C13: after each path-painting operator the current path is empty, with
\* and without callbacks, so that the next painting operator hands on only
\* the segments constructed since.
C13_PaintingClearsPath ==
    (pc >= 2 /\ ops[pc - 1].Name \in PaintingOperators) =>
        (IsEmpty(path) /\ path = NewPath)

\* C13 witness: a painting operator has run on a path that held segments,
\* in an interpreter without callbacks.
C13_Witness ==
    /\ pc >= 3 /\ ops[pc - 1].Name \in PaintingOperators
    /\ ops[pc - 2].Name = "re" /\ cb = {}
    /\ IsEmpty(path)

\* the names executeOp has a case for
SupportedOperators ==
    {"q", "Q", "cm", "w", "J", "j", "M", "d", "ri", "i", "gs", "m", "l", "c", "v",
     "y", "h", "re", "S", "s", "f", "F", "f*", "B", "B*", "b", "b*", "n", "W", "W*",
     "CS", "cs", "SC", "SCN", "sc", "scn", "G", "g", "RG", "rg", "K", "k", "BT",
     "ET", "Tc", "Tw", "Tz", "TL", "Tf", "Tr", "Ts", "Td", "TD", "Tm", "T*", "Tj",
     "TJ", "'", "\"", "Do"}

\* the operand of the unknown operator of ContentChunks, which no other
\* piece holds
UnknownOperand == parseOperand(<<"7">>)

\* C14: an operator whose name is not supported invokes no callback and
\* leaves the graphics state, the stack and the current path unchanged; its
\* operands are dropped and are not among those of the operators after it.
C14_UnknownOperatorSkipped ==
    /\ [][(pc >= 1 /\ pc' = pc + 1 /\ ops[pc].Name \notin SupportedOperators) =>
             (states' = states /\ heap' = heap /\ path' = path /\ calls' = << >>)]_vars
    /\ [](\A j \in 1..Len(ops) :
             IF ops[j].Name \in SupportedOperators
             THEN \A n \in 1..Len(ops[j].Operands) : ops[j].Operands[n] # UnknownOperand
             ELSE ops[j].Operands = <<UnknownOperand>>)

\* C14 witness: an unknown operator with an operand has run on a path that
\* holds segments, with callbacks set, and the operator after it has run too.
C14_Witness ==
    /\ pc >= 4
    /\ ops[pc - 3].Name = "re"
    /\ ops[pc - 2].Name \notin SupportedOperators
    /\ Len(ops[pc - 2].Operands) = 1
    /\ ops[pc - 1].Name = "f"
    /\ cb = AllCallbacks
    /\ Len(calls) = 1 /\ ~IsEmpty(calls[1].path)

\* C15: an array in operand position reaches its operator as one array
\* operand: TJ gets exactly one operand, an array, and d exactly two, the
\* first an array.
C15_ArrayIsOneOperand ==
    \A j \in 1..Len(ops) :
       /\ ops[j].Name = "TJ" =>
             (Len(ops[j].Operands) = 1 /\ ops[j].Operands[1].k = "arr")
       /\ ops[j].Name = "d" =>
             (Len(ops[j].Operands) = 2 /\ ops[j].Operands[1].k = "arr")

\* the clip path of the current state is in force: it holds segments, and a
\* painting operator has run since the W or W* that set it
ClipInForce ==
    /\ CurrentState.ClipPath # Nil
    /\ ~IsEmpty(CurrentState.ClipPath)
    /\ \E j \in 1..(pc - 1) :
          /\ ops[j].Name \in {"W", "W*"}
          /\ \A m \in (j + 1)..(pc - 1) : ops[m].Name \notin {"W", "W*"}
          /\ \E k \in (j + 1)..(pc - 1) : ops[k].Name \in PaintingOperators

\* C12: once a clip path is in force, a fill paints only pixels inside it:
\* every pixel outside the clip path keeps its colour.
C12_FillStaysInsideClip ==
    [][(pc >= 1 /\ pc' = pc + 1 /\ ops[pc].Name \in {"f", "F", "f*"} /\ ClipInForce) =>
          \A px \in DOMAIN canvas.img :
             canvas'.img[px] # canvas.img[px] =>
                Covered(transformPath(CurrentState.ClipPath, canvas.height, 1), px)]_vars

\* C12 witness: the inner square was made the clip path by W n, and the
\* square around it has been filled.
C12_Witness ==
    /\ pc = 6
    /\ ops[1].Name = "re" /\ ops[1].Operands = Nums(<<1, 1, 1, 1>>)
    /\ ops[2].Name = "W" /\ ops[3].Name = "n"
    /\ ops[4].Name = "re" /\ ops[4].Operands = Nums(<<0, 0, 3, 3>>)
    /\ ops[5].Name = "f"
    /\ Len(calls) = 1 /\ calls[1].cb = "OnFill"

\* the content stream so far is the outer square, the inner square inside
\* it with the same orientation, and one fill
TwoSquaresFilled ==
    /\ pc = 4
    /\ ops[1].Name = "re" /\ ops[1].Operands = Nums(<<0, 0, 3, 3>>)
    /\ ops[2].Name = "re" /\ ops[2].Operands = Nums(<<1, 1, 1, 1>>)
    /\ ops[3].Name \in {"f", "f*"}

\* pixel px lies in the outer square, in the inner square
InOuterSquare(px) ==
    px[1] \in 0..2 /\ px[2] \in (canvas.height - 3)..(canvas.height - 1)

InInnerSquare(px) == px[1] = 1 /\ px[2] = canvas.height - 2

\* what a fill of the two squares covers under the rule
TwoSquaresCover(rule, px) ==
    InOuterSquare(px) /\ (rule = FillRuleEvenOdd => ~InInnerSquare(px))

\* Path.Contains at the centre of pixel px, for the path handed to OnFill
\* as the Renderer draws it
ContainsCentre(px, rule) ==
    Contains(PathTransform(transformPath(calls[1].path, canvas.height, 1),
                           <<2, 0, 0, 2, 0, 0>>),
             Point(2 * px[1] + 1, 2 * px[2] + 1), rule)

\* C20: for an outer and an inner square of the same orientation, the
\* even-odd rule covers the annulus only and the non-zero rule the whole
\* outer square, both for Path.Contains and for Canvas.Fill.
C20_FillRuleSelects ==
    TwoSquaresFilled =>
        \A px \in DOMAIN canvas.img :
           /\ ContainsCentre(px, calls[1].rule) <=> TwoSquaresCover(calls[1].rule, px)
           /\ (canvas.img[px] = calls[1].state.FillColor)
                 <=> TwoSquaresCover(calls[1].rule, px)

\* C20 witness: the two squares have been filled with the even-odd rule.
C20_Witness == TwoSquaresFilled /\ calls[1].rule = FillRuleEvenOdd

(***************************************************************************)
(* Properties of the filters (SpecFilter)                                  *)
(***************************************************************************)
Unsupported(r) == r.err /\ r.msg = "unsupported filter"

\* C16: a decode call (Decode, or DecodeStream on a stream with a /Filter)
\* reports the unsupported-filter error exactly when the filter name is not
\* one of the defined filters, and for DCTDecode, JPXDecode and
\* CCITTFaxDecode it returns the input bytes unchanged with no error.
C16_UnsupportedOnlyForUndefinedFilters ==
    (output # Nil /\ input.op \in {"Decode", "DecodeStream"} /\ input.filter # "") =>
        /\ Unsupported(output) <=> input.filter \notin DefinedFilters
        /\ (input.op = "Decode" /\ input.filter \in PassThroughFilters)
              => output = Decoded(input.data)
        /\ (input.op = "DecodeStream" /\ input.filter \in PassThroughFilters
              /\ input.s.d["Filter"].k = "name")
              => output = Decoded(input.s.Data)

\* C16 (part that holds): Decode reports the error for every undefined name
\* and passes DCTDecode and JPXDecode through
C16_DecodeOtherFilters ==
    (output # Nil /\ input.op = "Decode" /\ input.filter # "CCITTFaxDecode") =>
        /\ Unsupported(output) <=> input.filter \notin DefinedFilters
        /\ input.filter \in PassThroughFilters => output = Decoded(input.data)

\* Decode has answered a CCITTFaxDecode call with the unsupported-filter error
C16_Witness ==
    /\ output # Nil /\ input.op = "Decode"
    /\ input.filter = "CCITTFaxDecode"
    /\ input.data = <<65>>
    /\ Unsupported(output)

\* C17: decoding the standard ASCIIHex, ASCII85 or RunLength encoding of a
\* byte string x returns exactly x
C17_DecodeInvertsStandardEncoding ==
    (output # Nil /\ input.op = "Decode" /\ input.std) => output = Decoded(input.x)

\* a five-byte string with a group of four zero bytes, decoded from base 85
C17_Witness ==
    /\ output # Nil /\ input.op = "Decode" /\ input.std
    /\ input.filter = "ASCII85Decode"
    /\ input.x = <<0, 0, 0, 0, 255>>
    /\ input.data = <<122, 114, 114, 126, 62>>
    /\ output.data = input.x

(***************************************************************************)
(* Properties of the predictors (SpecPredictor)                            *)
(***************************************************************************)
\* C18: for Predictor 10..14 and an image plane of whole rows,
\* EncodePNGPredictor followed by ApplyPredictor with the same parameters
\* returns the plane byte for byte
C18_PredictorRoundTrip ==
    (output # Nil /\ input.op = "Predictor" /\ output.decoded # Nil) =>
        output.decoded = Decoded(input.data)

\* a row of two two-byte pixels whose second pixel differs from the first
C18_Witness ==
    /\ output # Nil /\ input.op = "Predictor" /\ output.decoded # Nil
    /\ bytesPerPixel(input.params) = 2
    /\ rowSize(input.params) = 4
    /\ input.data = <<7, 255, 0, 7>>
    /\ output.encoded.data = <<1, 7, 255, 249, 8>>
    /\ output.decoded.data = input.data

(***************************************************************************)
(* Properties of the lexer (SpecLexer)                                     *)
(***************************************************************************)
\* C19: a literal string with one of the escapes \n \r \t \b \f \( \) \\ or
\* a three-digit octal escape lexes to a string token that holds the single
\* byte of the escape at its position
C19_EscapeYieldsOneByte ==
    (output # Nil /\ input.op = "Lex") =>
        /\ output.Type = "String"
        /\ output.Value = input.pre \o <<input.byte>> \o input.post

\* C19 (part that holds): the same, for the escapes whose value fits a byte
C19_EscapeUpTo377 ==
    (output # Nil /\ input.op = "Lex"
        /\ (Len(input.esc) = 3 => octalValue(input.esc, 1, 3) <= 255)) =>
        /\ output.Type = "String"
        /\ output.Value = input.pre \o <<input.byte>> \o input.post

\* the escape \400 between two letters has been lexed
C19_Witness ==
    /\ output # Nil /\ input.op = "Lex"
    /\ input.data = <<40, 65, 92, 52, 48, 48, 65, 41>>
    /\ output.Value = <<65, 65>>

(***************************************************************************)
(* Properties of cyclic structures (SpecObj, SpecPageCycle)                *)
(***************************************************************************)
\* C28: GetObject(n) terminates, returning an object or an error, for every
\* xref table, also when the entry of an object stream is a compressed entry
\* that names itself, or a chain of object streams that leads back to it, as
\* the containing stream.
C28_GetObjectTerminates ==
    /\ mode # "overflow"
    /\ \A a \in answers : a.op = "GetObject" => a.st \in {"ok", "err"}

\* GetObject has been called for an object whose compressed entry names the
\* object itself as the containing stream
C28_Witness ==
    \E a \in answers :
        /\ a.op = "GetObject" /\ InUse(a.n)
        /\ xref.Entries[a.n].ObjectStreamNum = a.n
        /\ a.st = "overflow"

\* the Pages nodes a Kids array of the node o refers to
KidNodes(o) ==
    { r.num : r \in { GetArray(BodyOf(o).d, "Kids").items[j] :
                         j \in 1..Len(GetArray(BodyOf(o).d, "Kids").items) } } \cap {2, 3}

\* C23: GetPage(i) terminates on every page tree, also when a Pages node
\* lists itself or one of its ancestors among its Kids: the walk stops and
\* returns a page or an error instead of recursing without bound.
C23_GetPageTerminates ==
    /\ mode # "overflow"
    /\ ret.op = "GetPage" => ret.st \in {"ok", "err"}

\* GetPage(0) has been called on a tree whose root lists itself as first kid
C23_Witness ==
    /\ ret.op = "GetPage" /\ ret.i = 0
    /\ RootNode \in KidNodes(RootNode)
    /\ GetArray(BodyOf(RootNode).d, "Kids").items[1] = Reference(RootNode, 0)
    /\ GetInt(BodyOf(RootNode).d, "Count").v = 1
    /\ ret.st = "overflow"

(***************************************************************************)
(* Properties of the fill operators (SpecPaint)                            *)
(***************************************************************************)
FillOperators == {"f", "F", "f*", "B", "B*", "b", "b*"}

\* the path with its current subpath closed
WithCloseSegment(p) ==
    [p EXCEPT !.Segments = Append(@, [Op |-> "Close", Points |-> << >>]),
              !.current = p.start]

\* C25: B, B*, b and b* invoke OnFill once and then OnStroke once, both with
\* the same path; b and b* close the current subpath before either callback;
\* f*, B* and b* pass the even-odd rule to OnFill, and f, F, B and b the
\* non-zero winding rule.
C25_FillThenStroke ==
    [][(pc >= 1 /\ pc' = pc + 1 /\ ops[pc].Name \in FillOperators) =>
          LET name == ops[pc].Name
              handed == PathTransform(IF name \in {"b", "b*"}
                                      THEN WithCloseSegment(path) ELSE path,
                                      CurrentState.CTM)
          IN /\ Len(calls') = IF name \in {"B", "B*", "b", "b*"} THEN 2 ELSE 1
             /\ calls'[1].cb = "OnFill"
             /\ calls'[1].path = handed
             /\ calls'[1].rule = IF name \in {"f*", "B*", "b*"}
                                 THEN FillRuleEvenOdd ELSE FillRuleNonZero
             /\ name \in {"B", "B*", "b", "b*"} =>
                   /\ calls'[2].cb = "OnStroke"
                   /\ calls'[2].path = handed]_vars

\* b* has run on an open subpath under a CTM that is not the identity: OnFill
\* and then OnStroke got the closed path, OnFill with the even-odd rule
C25_Witness ==
    /\ pc >= 3 /\ ops[pc - 1].Name = "b*" /\ ops[pc - 2].Name = "l"
    /\ CurrentState.CTM # Identity
    /\ Len(calls) = 2
    /\ calls[1].cb = "OnFill" /\ calls[1].rule = FillRuleEvenOdd
    /\ calls[2].cb = "OnStroke" /\ calls[2].path = calls[1].path
    /\ Len(calls[1].path.Segments) = 3
    /\ calls[1].path.Segments[3].Op = "Close"

(***************************************************************************)
(* Properties of the LZW decoder (SpecLzw)                                 *)
(***************************************************************************)
\* the smallest width from 9 on under which next is below the threshold, 12
\* when there is none
SmallestWidth(next, early) ==
    IF \E w \in 9..12 : next < 2 ^ w - early
    THEN CHOOSE w \in 9..12 :
            /\ next < 2 ^ w - early
            /\ \A v \in 9..(w - 1) : ~(next < 2 ^ v - early)
    ELSE 12

LzwInvariant ==
    (input # Nil /\ input.op = "LZW") =>
        /\ output.d.codeSize \in 9..12
        /\ output.d.nextCode \in 258..4096
        /\ \A c \in (0..(output.d.nextCode - 1)) \ {256, 257} :
              c \in DOMAIN output.d.table /\ output.d.table[c] # << >>
        /\ output.d.codeSize = SmallestWidth(output.d.nextCode, input.earlyChange)

\* C26: in every state of the LZW decoder the code width is in 9..12, the
\* next code is in 258..4096, every code below it other than 256 and 257 has
\* a non-empty table string and the width is the smallest one from 9 on with
\* next code < 2^width - earlyChange (12 when there is none); a clear code
\* returns the decoder to width 9, next code 258 and no previous sequence.
C26_LzwDecoderState ==
    /\ [](LzwInvariant)
    /\ [][(input # Nil /\ input.op = "LZW" /\ output.st = "run"
            /\ readCode(output.d).ok /\ readCode(output.d).code = 256) =>
              /\ output'.d.codeSize = 9
              /\ output'.d.nextCode = 258
              /\ output'.prevSeq = << >>]_vars

\* with early change the width has gone from 9 to 10 as the next code
\* reached 511
C26_Witness ==
    /\ input # Nil /\ input.op = "LZW" /\ input.earlyChange = 1
    /\ output.d.codeSize = 10
    /\ output.d.nextCode = 511
    /\ output.st = "run"

\* the table is full at width 12
C26_FullTable ==
    /\ input # Nil /\ input.op = "LZW"
    /\ output.d.codeSize = 12
    /\ output.d.nextCode = 4096

\* a clear code has been read after an entry was added to the table
C26_ClearWitness ==
    /\ input # Nil /\ input.op = "LZW"
    /\ output.d.data = Padded(<<0, 0, 32, 0>>, 0)
    /\ output.d.bit = 27 /\ output.d.nextCode = 258 /\ output.prevSeq = << >>

(***************************************************************************)
(* Properties of the font renderer (SpecGlyph)                             *)
(***************************************************************************)
\* the segments split after each Close
RECURSIVE SplitAtClose(_, _)
SplitAtClose(segs, from) ==
    IF from > Len(segs) THEN << >>
    ELSE LET to == IF \E j \in from..Len(segs) : segs[j].Op = "Close"
                   THEN CHOOSE j \in from..Len(segs) :
                           /\ segs[j].Op = "Close"
                           /\ \A k \in from..(j - 1) : segs[k].Op # "Close"
                   ELSE Len(segs)
         IN <<SubSeq(segs, from, to)>> \o SplitAtClose(segs, to + 1)

\* the contours of the glyph that have points
ContoursOf(glyph) ==
    LET all == [c \in 1..glyph.NumContours |-> GetContour(glyph, c - 1)]
    IN SelectSeq(all, LAMBDA pts : Len(pts) > 0)

\* sub starts with MoveTo, ends with Close, and the segment before the Close
\* ends at the point of the MoveTo
ClosedSubpath(sub) ==
    /\ Len(sub) >= 2
    /\ sub[1].Op = "MoveTo"
    /\ sub[Len(sub)].Op = "Close"
    /\ \A j \in 2..(Len(sub) - 1) : sub[j].Op \in {"LineTo", "CurveTo"}
    /\ LET endPts == sub[Len(sub) - 1].Points
       IN endPts[Len(endPts)] = sub[1].Points[1]

\* for each two off-curve points that follow each other around the contour,
\* sub has the curve controlled by the first that ends at their midpoint
MidpointsOnCurve(pts, sub) ==
    \A i \in 1..Len(pts) :
        LET p == pts[i]
            q == pts[(i % Len(pts)) + 1]
            mx == (p.x + q.x) \div 2
            my == (p.y + q.y) \div 2
        IN (~p.on /\ ~q.on) =>
              \E j \in 1..Len(sub) :
                  /\ sub[j].Op = "CurveTo"
                  /\ sub[j].Points[3] = Point(mx, my)
                  /\ sub[j].Points[2] = Point(mx + (2 * (p.x - mx)) \div 3,
                                              my + (2 * (p.y - my)) \div 3)

SimpleGlyphCall ==
    /\ input # Nil /\ input.op = "Glyph" /\ output # Nil
    /\ ~IsCompound(input.font[input.glyphID + 1])

ContoursEmitted(closed) ==
    LET cs == ContoursOf(input.font[input.glyphID + 1])
        subs == SplitAtClose(output.path.Segments, 1)
    IN /\ output.st = "ok"
       /\ Len(subs) = Len(cs)
       /\ \A k \in 1..Len(cs) :
             /\ closed => ClosedSubpath(subs[k])
             /\ MidpointsOnCurve(cs[k], subs[k])

\* C21: for every simple glyph each contour is emitted as one subpath that
\* starts with MoveTo, ends with Close and returns to its start point before
\* the Close, and two consecutive off-curve points give a curve that ends at
\* their midpoint; also for contours that start off-curve or have no
\* on-curve point.
C21_ContoursClosed == SimpleGlyphCall => ContoursEmitted(TRUE)

\* a contour of three off-curve points whose outline ends away from its
\* start point
C21_Witness ==
    /\ SimpleGlyphCall
    /\ input.font[1].NumContours = 1
    /\ input.font[1].Flags = <<FALSE, FALSE, FALSE>>
    /\ input.font[1].XCoordinates = <<0, 12, 12>>
    /\ input.font[1].YCoordinates = <<0, 0, 12>>
    /\ output.path.Segments[1] = [Op |-> "MoveTo", Points |-> <<Point(6, 6)>>]
    /\ output.path.Segments[4].Op = "CurveTo"
    /\ output.path.Segments[4].Points[3] = Point(6, 0)
    /\ output.path.Segments[5].Op = "Close"

\* what holds of every simple glyph: one subpath from MoveTo to Close per
\* contour, with the midpoint curves; and the outline returns to the start
\* point when the contour has an on-curve point or at most two points
C21_ContoursWithOnCurvePoint ==
    SimpleGlyphCall =>
        /\ ContoursEmitted(FALSE)
        /\ (\A k \in 1..Len(ContoursOf(input.font[1])) :
               \/ \E i \in 1..Len(ContoursOf(input.font[1])[k]) :
                     ContoursOf(input.font[1])[k][i].on
               \/ Len(ContoursOf(input.font[1])[k]) <= 2)
              => ContoursEmitted(TRUE)

\* the components of the glyph asked for that name the glyph g
ComponentsNaming(g) ==
    LET comps == input.font[input.glyphID + 1].Components
    IN { k \in 1..Len(comps) : comps[k].GlyphIndex = g }

\* the glyph asked for is compound and each component is the triangle,
\* glyph 0, or has an ID out of range; one of them is out of range
SkipCase ==
    /\ input # Nil /\ input.op = "Glyph" /\ output # Nil
    /\ IsCompound(input.font[input.glyphID + 1])
    /\ \A k \in 1..Len(input.font[input.glyphID + 1].Components) :
          k \in ComponentsNaming(0) \cup ComponentsNaming(NumGlyphs)
    /\ ComponentsNaming(NumGlyphs) # {}

\* the component that cannot be fetched is skipped, the triangles of the
\* other components are emitted
UnexpandableSkipped ==
    SkipCase =>
        /\ output.st = "ok"
        /\ Len(SplitAtClose(output.path.Segments, 1))
              = Cardinality(ComponentsNaming(0))
        /\ \A j \in 1..Len(SplitAtClose(output.path.Segments, 1)) :
              SplitAtClose(output.path.Segments, 1)[j]
                  = PathTransform(simpleGlyphToPath(input.font[1]),
                                  Translate(6, 0)).Segments

\* C24: GlyphToPath terminates for every glyph of every font, also for a
\* compound glyph one of whose components is the glyph itself or a compound
\* glyph that leads back to it; a component that cannot be expanded is
\* skipped and the other components are emitted.
C24_GlyphToPathTerminates ==
    /\ (input # Nil /\ input.op = "Glyph" /\ output # Nil) => output.st \in {"ok", "err"}
    /\ UnexpandableSkipped

\* glyph 1 is compound and its one component is glyph 1
C24_Witness ==
    /\ input # Nil /\ input.op = "Glyph" /\ output # Nil
    /\ input.glyphID = 1
    /\ input.font[2].Components = <<GlyphComponent(1, 6, 0)>>
    /\ output.st = "overflow"

\* a component out of range next to the triangle: the triangle alone is
\* emitted
C24_SkipWitness ==
    /\ SkipCase
    /\ input.font[input.glyphID + 1].Components
          = <<GlyphComponent(NumGlyphs, 6, 0), GlyphComponent(0, 6, 0)>>
    /\ output.st = "ok"
    /\ Len(output.path.Segments) = 5

\* a glyph two compound glyphs away from itself
C24_LongCycle ==
    /\ input # Nil /\ input.op = "Glyph" /\ output # Nil
    /\ input.glyphID = 2
    /\ input.font[2].Components = <<GlyphComponent(0, 6, 0), GlyphComponent(2, 6, 0)>>
    /\ input.font[3].Components = <<GlyphComponent(1, 6, 0)>>
    /\ output.st = "overflow"

(***************************************************************************)
(* Properties of the render size (SpecRender)                              *)
(***************************************************************************)
RenderSized == input # Nil /\ input.op = "Render" /\ output # Nil

\* the size of the image under the dpi d
SizeUnder(d) ==
    /\ output.width = Ceil(pageDimensions(input.mediaBox).width * d, 72)
    /\ output.height = Ceil(pageDimensions(input.mediaBox).height * d, 72)

\* C22: the image render returns is ceil(pageWidth * d / 72) wide and
\* ceil(pageHeight * d / 72) high, d the effective dpi opts.DPI * opts.Scale:
\* 612 x 792 for a MediaBox [0 0 612 792] at dpi 72 and scale 1, and another
\* size when the scale alone changes.
C22_SizeFromDpiAndScale == RenderSized => SizeUnder(input.opts.DPI * input.opts.Scale)

\* a US Letter page at dpi 72 and scale 2: the image is 612 x 792
C22_Witness ==
    /\ RenderSized
    /\ input.mediaBox = <<0, 0, 612, 792>>
    /\ input.opts = RenderOptions(72, 2)
    /\ output = [width |-> 612, height |-> 792]

\* what holds: the size is that of opts.DPI alone
C22_SizeFromDpi == RenderSized => SizeUnder(input.opts.DPI)

\* dpi 72 and scale 1 give 612 x 792, dpi 100 rounds 595 * 100 / 72 up
C22_DpiWitness ==
    /\ RenderSized
    /\ input.mediaBox = <<0, 0, 595, 842>>
    /\ input.opts = RenderOptions(100, 1)
    /\ output = [width |-> 827, height |-> 1170]

(***************************************************************************)
(* Properties of strings and names (SpecStrings)                           *)
(***************************************************************************)
BothRead == input # Nil /\ input.op = "Token" /\ output.lexed /\ output.parsed

SameBytes == output.operands = <<output.token.Value>>

\* C27: for every literal string, hex string and name the content-stream
\* parser yields the decoded bytes the COS lexer yields for the same source
\* text: the same escapes and octal handling, a backslash before an end of
\* line dropped, balanced parentheses kept, #xx in names expanded.
C27_SameDecodedBytes == BothRead => SameBytes

\* the name /#41: A to the lexer, #41 to the content-stream parser
C27_Witness ==
    /\ BothRead
    /\ input.src = <<47, 35, 52, 49>>
    /\ output.token.Value = <<65>>
    /\ output.operands = << <<35, 52, 49>> >>

\* a backslash before a line feed: dropped by the lexer, a line feed to the
\* content-stream parser
C27_ContinuationWitness ==
    /\ BothRead
    /\ input.src = <<40, 65, 92, 10, 41>>
    /\ output.token.Value = <<65>>
    /\ output.operands = << <<65, 10>> >>

\* the source text has a # escape the lexer expands, a backslash before an
\* end of line, or a hex string with a character that is no digit
Divergent(src) ==
    \/ src[1] = 47 /\ \E p \in 2..(Len(src) - 2) : src[p] = 35 /\ isHexPair(src, p + 1)
    \/ src[1] = 40 /\ \E p \in 2..(Len(src) - 1) :
                          src[p] = 92 /\ src[p + 1] \in {10, 13}
    \/ src[1] = 60 /\ \E p \in 2..(Len(src) - 1) : src[p] = 120

\* the two agree on every other source text
C27_AgreeElsewhere == (BothRead /\ ~Divergent(input.src)) => SameBytes

\* nested parentheses and an octal escape, read alike
C27_AgreeWitness ==
    /\ BothRead
    /\ input.src = <<40, 40, 65, 41, 92, 49, 48, 49, 41>>
    /\ output.operands = << <<40, 65, 41, 65>> >>
    /\ SameBytes

(***************************************************************************)
(* Properties of the viewer (SpecGui)                                      *)
(***************************************************************************)
Rendering(t) == app.th[t].pc = "rendering"

\* C29: no two threads operate on the same Document at the same time: while
\* the goroutine of RunWithFile is inside RenderWithOptions of a document,
\* the thread of the event handlers is not inside RenderWithOptions of the
\* same document.
C29_OneThreadPerDocument ==
    app # Nil => ~(/\ Rendering("loader") /\ Rendering("ui")
                   /\ app.th["loader"].doc.id = app.th["ui"].doc.id)

\* both threads render the document the goroutine has loaded
C29_Witness ==
    /\ app # Nil
    /\ Rendering("loader") /\ Rendering("ui")
    /\ app.th["loader"].doc = app.document
    /\ app.th["ui"].doc = app.document

InRange(page, count) == page >= 0 /\ page <= (IF count - 1 > 0 THEN count - 1 ELSE 0)

\* every handler has returned
HandlersReturned == app.th["loader"].pc = "done" /\ app.th["ui"].pc = "idle"

\* C30: once a document is loaded the current page index is never negative
\* and never above max(0, page count - 1), whatever the page count, 0
\* included, and every render is asked for an index in that range.
C30_PageIndexInRange ==
    app # Nil =>
        /\ (HandlersReturned /\ app.document # Nil)
               => InRange(app.currentPage, app.document.pageCount)
        /\ \A t \in Threads :
               Rendering(t) => InRange(app.th[t].page, app.th[t].doc.pageCount)

\* a document of no page: Home has set the current page to -1 and the page
\* -1 is being rendered
C30_Witness ==
    /\ app # Nil /\ app.document # Nil
    /\ app.document.pageCount = 0
    /\ app.currentPage = -1
    /\ Rendering("ui") /\ app.th["ui"].page = -1

\* what holds: the index is in range for a document that has a page
C30_InRangeWithPages ==
    app # Nil =>
        /\ (HandlersReturned /\ app.document # Nil /\ app.document.pageCount >= 1)
               => InRange(app.currentPage, app.document.pageCount)
        /\ \A t \in Threads :
               (Rendering(t) /\ app.th[t].doc.pageCount >= 1)
                  => InRange(app.th[t].page, app.th[t].doc.pageCount)

\* an event handled while the goroutine is loading: prevPage has passed its
\* guard, loadFile has reset the page, and the decrement has made it -1
C30_RaceWitness ==
    /\ app # Nil /\ app.document # Nil
    /\ app.document.pageCount = 2
    /\ app.opened = 1
    /\ app.currentPage = -1
====
